---- MODULE Spec2Model ----
(***************************************************************************)
(* Model of the multi-timeframe market-data pipeline:                      *)
(*   - DefaultFeaturesPipeline (features/pipeline.py): construction and    *)
(*     build(), the fan-out of one task per timeframe plus one snapshot    *)
(*     task, joined by asyncio.gather(return_exceptions=True);             *)
(*   - SimpleMarketDataSource (data/market.py): get_recent_candles,        *)
(*     get_multi_timeframe_candles and get_market_snapshot, one step per   *)
(*     await on the exchange client;                                       *)
(* and of the models router (server/api/routers/models.py): the handlers   *)
(* that edit a provider's YAML file and the .env file, each applied as one *)
(* step to the stored data, and check_model, one step per ping.            *)
(*                                                                         *)
(* Strings that the code takes apart (symbols) are sequences of tokens:    *)
(* "BTC/USDT" is <<"BTC", "/", "USDT">>.  A raised error is an instance of *)
(* Exception: every handler of the code is `except Exception` or a bare    *)
(* `except`; task cancellation (BaseException) is not an error outcome.    *)
(***************************************************************************)
EXTENDS Integers, Sequences, FiniteSets, TLC

-----------------------------------------------------------------------------
(* Bounds of the model *)

\* longest requested symbol list
MaxSymbols == 2
\* longest caller-supplied timeframe table
MaxK == 2
\* most rows one fetch_ohlcv response holds
MaxRows == 2
\* longest symbol string, in tokens
MaxTokens == 5
\* most features of one trend value handed to the summary
MaxCount == 12
\* longest list of provider names
MaxNames == 4
\* most entries of a provider's models list
MaxModels == 2
\* most build() calls made on one pipeline
MaxBuilds == 2

-----------------------------------------------------------------------------
(* Generic helpers *)

SeqsUpTo(S, n) == UNION {[1..k -> S] : k \in 0..n}

\* the elements of s at the positions in I, in order
RECURSIVE SelectAt(_, _)
SelectAt(s, I) ==
    IF s = <<>> THEN <<>>
    ELSE LET init == SelectAt(SubSeq(s, 1, Len(s) - 1), I)
         IN  IF Len(s) \in I THEN Append(init, s[Len(s)]) ELSE init

\* concatenation of a sequence of sequences (itertools.chain.from_iterable)
RECURSIVE chain_from_iterable(_)
chain_from_iterable(ss) ==
    IF ss = <<>> THEN <<>>
    ELSE chain_from_iterable(SubSeq(ss, 1, Len(ss) - 1)) \o ss[Len(ss)]

-----------------------------------------------------------------------------
(* Symbols and timeframe tables *)

BTC_USDT == <<"BTC", "/", "USDT">>
ETH_USDT == <<"ETH", "/", "USDT">>

\* symbols a request may name
RequestSymbols == {BTC_USDT, ETH_USDT}

\* requests a multi-timeframe pipeline (six concurrent tasks) is built from
MultiModeRequests == {<<>>, <<BTC_USDT>>}

CandleConfig(interval, lookback) == [interval |-> interval, lookback |-> lookback]

MULTI_TIMEFRAME_CONFIGS ==
    << CandleConfig("1m", 120), CandleConfig("15m", 96), CandleConfig("1h", 168),
       CandleConfig("4h", 180), CandleConfig("1d", 90) >>

\* the table used when multi-timeframe mode is off and none is supplied
LegacyConfigs == << CandleConfig("1s", 60 * 3), CandleConfig("1m", 60 * 4) >>

\* entries a caller-supplied table is drawn from
CustomConfigs == {CandleConfig("1s", 2), CandleConfig("1h", 3)}

\* the candle_configurations argument: None, or a list
NoneArg == [given |-> FALSE, value |-> <<>>]
ListArg(l) == [given |-> TRUE, value |-> l]
ConfigurationArgs == {NoneArg} \cup {ListArg(l) : l \in SeqsUpTo(CustomConfigs, MaxK)}

\* list(symbols): the list as requested
list_of(s) == s

\* list(dict.fromkeys(symbols)): first occurrence kept, order preserved
RECURSIVE dict_fromkeys(_)
dict_fromkeys(s) ==
    IF s = <<>> THEN <<>>
    ELSE LET init == dict_fromkeys(SubSeq(s, 1, Len(s) - 1))
             last == s[Len(s)]
         IN  IF \E i \in 1..Len(init) : init[i] = last THEN init
             ELSE Append(init, last)

\* an __init__ in which a caller-supplied table wins in either mode
init_caller_table_first(use_multi_timeframe, candle_configurations) ==
    IF candle_configurations.given /\ candle_configurations.value # <<>>
    THEN candle_configurations.value
    ELSE IF use_multi_timeframe THEN MULTI_TIMEFRAME_CONFIGS ELSE LegacyConfigs

\* __init__: the table chosen at construction
init_candle_configurations(use_multi_timeframe, candle_configurations) ==
    IF use_multi_timeframe THEN MULTI_TIMEFRAME_CONFIGS
    ELSE IF candle_configurations.given /\ candle_configurations.value # <<>>
         THEN candle_configurations.value
         ELSE LegacyConfigs

-----------------------------------------------------------------------------
(* State *)

VARIABLES
    configurations_arg,       \* the candle_configurations argument of __init__
    request_symbols,          \* request.trading_config.symbols
    _symbols,                 \* self._symbols
    _use_multi_timeframe,     \* self._use_multi_timeframe
    _candle_configurations,   \* self._candle_configurations
    build_pc,                 \* "idle", "gather", "returned", "raised"
    tasks,                    \* the coroutines handed to asyncio.gather, in order
    sessions,                 \* exchange clients created so far: id -> status
    features,                 \* FeaturesPipelineResult.features
    summary,                  \* the last multi-timeframe summary logged
    calls,                    \* the calls made on the data source, in order
    out_of_order              \* some task finished before an earlier one

pipeline_vars == << configurations_arg, request_symbols, _symbols, _use_multi_timeframe,
                    _candle_configurations, build_pc, tasks, sessions,
                    features, summary, calls, out_of_order >>

\* One call on a SimpleMarketDataSource
VARIABLES
    s_call,                     \* the method called and its arguments
    s_pc,                       \* where the call stands
    s_interval,                 \* get_recent_candles' interval after the fallback
    s_exchange,                 \* the call's exchange client
    s_tf,                       \* index of the current timeframe (multi-timeframe)
    s_sym,                      \* index of the current symbol
    s_all_candles,              \* candles collected (of the current timeframe)
    s_result,                   \* get_multi_timeframe_candles' result dict
    s_snapshot,                 \* get_market_snapshot's dict
    s_success_count,            \* get_market_snapshot's success_count
    s_retval,                   \* what the call returned
    s_log,                      \* the symbol loop so far: each iteration's request and response
    s_counts                    \* how often each exchange operation was invoked

source_vars == << s_call, s_pc, s_interval, s_exchange, s_tf, s_sym, s_all_candles, s_result,
                  s_snapshot, s_success_count, s_retval, s_log, s_counts >>

\* One request to the models router (server/api/routers/models.py)
VARIABLES
    r_call,                     \* the endpoint called, its payload, and the state it found
    r_pc,                       \* where the request stands
    r_yaml,                     \* the provider's YAML file
    r_environ,                  \* os.environ
    r_env_file,                 \* the lines of the system .env file
    r_pings,                    \* the HTTP requests check_model has sent, in order
    r_response                  \* what the endpoint answered

router_vars == << r_call, r_pc, r_yaml, r_environ, r_env_file, r_pings, r_response >>

vars == << pipeline_vars, source_vars, router_vars >>

-----------------------------------------------------------------------------
(* Values passed between the pipeline and its collaborators *)

\* what a call or a task yields: a list, None, or a raised Exception
List(l) == [tag |-> "list", val |-> l]
NoneVal == [tag |-> "none", val |-> <<>>]
Exc == [tag |-> "exc", val |-> <<>>]

Candle(ts, symbol, interval) == [ts |-> ts, symbol |-> symbol, interval |-> interval]

\* a FeatureVector: its interval tag ("snapshot" for getattr's default), the
\* symbol it describes and its trend attribute ("none" when it has none)
Feature(interval, symbol, trend) ==
    [interval |-> interval, symbol |-> symbol, trend |-> trend]

\* the trend attribute the candle feature computer derives for a symbol (the
\* market is fixed: BTC rising, everything else falling)
trend_of(symbol) == IF symbol = BTC_USDT THEN "bullish" ELSE "bearish"

\* no fallback: the interval as requested
requested_interval(interval) == interval

\* a fallback that fetches "1s" as "1h"
fallback_interval_hourly(interval) == IF interval = "1s" THEN "1h" ELSE interval

\* get_recent_candles: "1s" is fetched as "1m"
fallback_interval(interval) == IF interval = "1s" THEN "1m" ELSE interval

\* what get_recent_candles can return to the pipeline once its session exists:
\* the candles of the symbols that were fetched, in input order, none for a
\* symbol that was skipped
recent_candles_results(symbols, interval) ==
    { List([i \in 1..Len(SelectAt(symbols, I)) |->
               Candle(1, SelectAt(symbols, I)[i], fallback_interval(interval))])
        : I \in SUBSET (1..Len(symbols)) }

\* what get_market_snapshot can return: the symbols whose ticker was fetched
\* (a source behind the interface may also hand back None)
market_snapshot_results(symbols) ==
    { List(SelectAt(symbols, I)) : I \in SUBSET (1..Len(symbols)) } \cup {NoneVal}

\* the candle feature computer: raises, or returns a feature list (one vector
\* per fetched symbol, or nothing)
compute_features_results(candles) ==
    { Exc, List(<<>>),
      List([i \in 1..Len(candles) |->
               Feature(candles[i].interval, candles[i].symbol,
                       trend_of(candles[i].symbol))]) }

\* a snapshot feature computer that answers an empty snapshot with a
\* placeholder vector
snapshot_build_placeholder(snapshot) ==
    IF snapshot = <<>> THEN {Exc, List(<< Feature("snapshot", <<>>, "none") >>)}
    ELSE {Exc, List([i \in 1..Len(snapshot) |-> Feature("snapshot", snapshot[i], "none")])}

\* the snapshot feature computer: raises, or returns one vector per symbol of
\* the snapshot
snapshot_build_results(snapshot) ==
    {Exc, List([i \in 1..Len(snapshot) |-> Feature("snapshot", snapshot[i], "none")])}

-----------------------------------------------------------------------------
(* build(): the two task bodies *)

TaskResult(out, raised, invoked, computed) ==
    [out |-> out, raised |-> raised, invoked |-> invoked, computed |-> computed]

\* _fetch_candles with a bare `return` where no candles came back
fetch_candles_bare_return(call, comp) ==
    IF call.tag = "exc" THEN TaskResult(List(<<>>), TRUE, FALSE, <<>>)
    ELSE IF call.val = <<>> THEN TaskResult(NoneVal, FALSE, FALSE, <<>>)
    ELSE IF comp.tag = "exc" THEN TaskResult(List(<<>>), TRUE, TRUE, <<>>)
    ELSE TaskResult(comp, FALSE, TRUE, comp.val)

\* _fetch_candles without the test for an empty fetch
fetch_candles_always_computes(call, comp) ==
    IF call.tag = "exc" THEN TaskResult(List(<<>>), TRUE, FALSE, <<>>)
    ELSE IF comp.tag = "exc" THEN TaskResult(List(<<>>), TRUE, TRUE, <<>>)
    ELSE TaskResult(comp, FALSE, TRUE, comp.val)

\* _fetch_candles: `call` is what get_recent_candles yielded, `comp` what the
\* feature computer yields if it is invoked
fetch_candles(call, comp) ==
    IF call.tag = "exc" THEN TaskResult(List(<<>>), TRUE, FALSE, <<>>)
    ELSE IF call.val = <<>> THEN TaskResult(List(<<>>), FALSE, FALSE, <<>>)
    ELSE IF comp.tag = "exc" THEN TaskResult(List(<<>>), TRUE, TRUE, <<>>)
    ELSE TaskResult(comp, FALSE, TRUE, comp.val)

\* _fetch_market_features whose handler logs and falls off the end (None)
fetch_market_features_no_return(call, comp) ==
    IF call.tag = "exc" THEN TaskResult(NoneVal, TRUE, FALSE, <<>>)
    ELSE IF comp.tag = "exc" THEN TaskResult(NoneVal, TRUE, TRUE, <<>>)
    ELSE TaskResult(comp, FALSE, TRUE, comp.val)

\* _fetch_market_features: `call` is what get_market_snapshot yielded
fetch_market_features(call, comp) ==
    IF call.tag = "exc" THEN TaskResult(List(<<>>), TRUE, FALSE, <<>>)
    ELSE IF comp.tag = "exc" THEN TaskResult(List(<<>>), TRUE, TRUE, <<>>)
    ELSE TaskResult(comp, FALSE, TRUE, comp.val)

\* `market_snapshot or {}`
snapshot_or_empty(call) == IF call.tag = "list" THEN call.val ELSE <<>>

-----------------------------------------------------------------------------
(* build(): task creation and the join *)

NewTask(kind, interval, lookback) ==
    [kind |-> kind, interval |-> interval, lookback |-> lookback,
     pc |-> "scheduled", session |-> 0, fetched |-> NoneVal,
     out |-> List(<<>>), raised |-> FALSE, invoked |-> FALSE, computed |-> <<>>]

\* one task per distinct interval of the table, then the snapshot task
make_tasks_per_interval(configurations) ==
    LET ivs == dict_fromkeys([i \in 1..Len(configurations) |-> configurations[i].interval])
        first(iv) == CHOOSE i \in 1..Len(configurations) :
                        /\ configurations[i].interval = iv
                        /\ \A j \in 1..(i - 1) : configurations[j].interval # iv
    IN  Append([k \in 1..Len(ivs) |->
                   NewTask("candles", ivs[k], configurations[first(ivs[k])].lookback)],
               NewTask("snapshot", "", 0))

\* tasks = [_fetch_candles(c.interval, c.lookback) for c in table];
\* tasks.append(_fetch_market_features())
make_tasks(configurations) ==
    Append([i \in 1..Len(configurations) |->
               NewTask("candles", configurations[i].interval,
                       configurations[i].lookback)],
           NewTask("snapshot", "", 0))

\* asyncio.gather(*tasks, return_exceptions=True): one result per task, in
\* submission order, a raised exception as a value
gather(ts) == [i \in 1..Len(ts) |-> ts[i].out]

\* the loop that replaces an exception by []
valid_results(results) ==
    [i \in 1..Len(results) |->
        IF results[i].tag = "exc" THEN List(<<>>) ELSE results[i]]

\* valid_results.pop(0): the first result taken for the snapshot's
pop_first(valid) ==
    [market |-> valid[1], rest |-> SubSeq(valid, 2, Len(valid))]

\* market_features = valid_results.pop(): the last result, and the rest
pop_market_features(valid) ==
    [market |-> valid[Len(valid)], rest |-> SubSeq(valid, 1, Len(valid) - 1)]

\* by_interval: the features that have a truthy interval ("" stands for a
\* missing or empty one), which are the ones put into a group
grouped(fs) == SelectAt(fs, {i \in 1..Len(fs) : fs[i].interval # ""})

\* the keys of by_interval, in first-seen order
timeframes_analyzed(fs) ==
    dict_fromkeys([i \in 1..Len(grouped(fs)) |-> grouped(fs)[i].interval])

\* the tally of one trend value over the features of all groups
CountTrend(fs, t) == Cardinality({i \in 1..Len(grouped(fs)) : grouped(fs)[i].trend = t})

\* a classification with >= where the code has >
trend_alignment_at_least(bullish_count, bearish_count) ==
    IF bullish_count >= bearish_count * 2 THEN "strong_bullish"
    ELSE IF bearish_count >= bullish_count * 2 THEN "strong_bearish"
    ELSE IF bullish_count >= bearish_count THEN "bullish"
    ELSE IF bearish_count >= bullish_count THEN "bearish"
    ELSE "neutral"

\* the five-way classification of the two tallies
trend_alignment(bullish_count, bearish_count) ==
    IF bullish_count > bearish_count * 2 THEN "strong_bullish"
    ELSE IF bearish_count > bullish_count * 2 THEN "strong_bearish"
    ELSE IF bullish_count > bearish_count THEN "bullish"
    ELSE IF bearish_count > bullish_count THEN "bearish"
    ELSE "neutral"

NoSummary == [computed |-> FALSE, timeframes_analyzed |-> <<>>,
              trend_alignment |-> "unknown"]

compute_multi_timeframe_summary(fs) ==
    [computed |-> TRUE,
     timeframes_analyzed |-> timeframes_analyzed(fs),
     trend_alignment |-> trend_alignment(CountTrend(fs, "bullish"),
                                         CountTrend(fs, "bearish"))]

\* an assembly that computes the summary whenever multi-timeframe mode is on
assemble_summary_unconditional(results, use_multi_timeframe) ==
    LET popped == pop_market_features(valid_results(results))
        candle_features ==
            chain_from_iterable([i \in 1..Len(popped.rest) |-> popped.rest[i].val])
    IN  [raised |-> FALSE,
         features |-> candle_features \o popped.market.val,
         summary |-> IF use_multi_timeframe
                     THEN compute_multi_timeframe_summary(candle_features)
                     ELSE NoSummary]

\* build() from the gather to the return: chain.from_iterable and extend raise
\* TypeError on a result that is not a list
assemble(results, use_multi_timeframe) ==
    LET popped == pop_market_features(valid_results(results))
        chain_ok == \A i \in 1..Len(popped.rest) : popped.rest[i].tag = "list"
        candle_features ==
            chain_from_iterable([i \in 1..Len(popped.rest) |-> popped.rest[i].val])
        extend_ok == popped.market.tag = "list"
    IN  IF ~chain_ok
        THEN [raised |-> TRUE, features |-> <<>>, summary |-> NoSummary]
        ELSE [raised |-> ~extend_ok,
              features |-> IF extend_ok THEN candle_features \o popped.market.val
                           ELSE <<>>,
              summary |-> IF use_multi_timeframe /\ candle_features # <<>>
                          THEN compute_multi_timeframe_summary(candle_features)
                          ELSE NoSummary]

-----------------------------------------------------------------------------
(* Initial state: a pipeline after __init__ *)

\* The pipelines built: any request with the default tables; a caller-supplied
\* table with requests short enough that symbols and entries together stay
\* within MaxK; in multi-timeframe mode (six concurrent tasks) the
\* requests of MultiModeRequests.
PipelineInit ==
    \E req \in SeqsUpTo(RequestSymbols, MaxSymbols),
       use_multi_timeframe \in BOOLEAN,
       candle_configurations \in ConfigurationArgs :
        /\ use_multi_timeframe => req \in MultiModeRequests
        /\ (use_multi_timeframe /\ candle_configurations.given) =>
              req = <<>> /\ Len(candle_configurations.value) = 1
        /\ (~use_multi_timeframe /\ candle_configurations.given) =>
              /\ candle_configurations.value = <<>> => req = <<>>
              /\ Len(req) + Len(candle_configurations.value) <= MaxK
        /\ configurations_arg = candle_configurations
        /\ request_symbols = req
        /\ _symbols = dict_fromkeys(req)
        /\ _use_multi_timeframe = use_multi_timeframe
        /\ _candle_configurations =
               init_candle_configurations(use_multi_timeframe, candle_configurations)
        /\ build_pc = "idle"
        /\ tasks = <<>>
        /\ sessions = <<>>
        /\ features = <<>>
        /\ summary = NoSummary
        /\ calls = <<>>
        /\ out_of_order = FALSE

-----------------------------------------------------------------------------
(* Actions of build() *)

\* a table drained while the tasks are made from it
configurations_consumed(configurations) == <<>>

\* `for config in self._candle_configurations`: the table is read, and is
\* after the loop what it was before
configurations_after_tasks(configurations) == configurations

\* build() up to the await on gather: the K+1 coroutines are created
BuildStart ==
    /\ build_pc = "idle"
    /\ build_pc' = "gather"
    /\ tasks' = make_tasks(_candle_configurations)
    /\ _candle_configurations' = configurations_after_tasks(_candle_configurations)
    /\ UNCHANGED << configurations_arg, request_symbols, _symbols, _use_multi_timeframe,
                    sessions, features, summary, calls, out_of_order >>

\* the call a task makes on the data source
task_call(t, symbols) ==
    IF t.kind = "candles"
    THEN [method |-> "get_recent_candles", symbols |-> symbols,
          interval |-> t.interval, lookback |-> t.lookback]
    ELSE [method |-> "get_market_snapshot", symbols |-> symbols,
          interval |-> "", lookback |-> 0]

\* a task whose data-source call raised before any await
task_failed_call(t) ==
    IF t.kind = "candles" THEN fetch_candles(Exc, Exc)
    ELSE fetch_market_features(Exc, Exc)

\* a data source that keeps one exchange client and hands it to every call
create_exchange_cached(existing) == 1

\* _create_exchange in a data-source call: the session this call will use,
\* a new client each time
create_exchange(existing) == Len(existing) + 1

\* A task runs from its start to its first await: it calls the data source,
\* which creates its exchange session (or fails to, and the task's handler
\* turns the exception into []) and suspends in load_markets.  The event loop
\* starts the tasks in submission order.
TaskStart(i) ==
    /\ build_pc = "gather"
    /\ i \in 1..Len(tasks)
    /\ tasks[i].pc = "scheduled"
    /\ \A j \in 1..(i - 1) : tasks[j].pc # "scheduled"
    /\ calls' = Append(calls, task_call(tasks[i], _symbols))
    /\ \/ LET id == create_exchange(sessions)
          IN  /\ sessions' = [k \in 1..(IF id > Len(sessions) THEN id ELSE Len(sessions))
                                 |-> IF k = id THEN "open" ELSE sessions[k]]
              /\ tasks' = [tasks EXCEPT ![i].pc = "open", ![i].session = id]
              /\ UNCHANGED out_of_order
       \/ LET r == task_failed_call(tasks[i])
          IN  /\ tasks' = [tasks EXCEPT ![i].pc = "done", ![i].fetched = Exc,
                                        ![i].out = r.out, ![i].raised = r.raised,
                                        ![i].invoked = r.invoked,
                                        ![i].computed = r.computed]
              /\ out_of_order' = (out_of_order \/ \E j \in 1..(i - 1) : tasks[j].pc # "done")
              /\ UNCHANGED sessions
    /\ UNCHANGED << configurations_arg, request_symbols, _symbols, _use_multi_timeframe,
                    _candle_configurations, build_pc, features, summary >>

\* what a task yields once its data-source call has returned `call`
task_results(t, call) ==
    IF t.kind = "candles"
    THEN {fetch_candles(call, comp) : comp \in compute_features_results(call.val)}
    ELSE {fetch_market_features(call, comp) :
             comp \in snapshot_build_results(snapshot_or_empty(call))}

\* what the data-source call of a task can return
call_results(t, symbols) ==
    IF t.kind = "candles" THEN recent_candles_results(symbols, t.interval)
    ELSE market_snapshot_results(symbols)

\* The data-source call of a task finishes: its exchange traffic is over, the
\* `finally` has called close() on the session, the call returns and the task
\* computes its features.  No exchange call completes before the event loop
\* has run every ready task to its first await.
TaskReturn(i) ==
    /\ build_pc = "gather"
    /\ i \in 1..Len(tasks)
    /\ tasks[i].pc = "open"
    /\ \A j \in 1..Len(tasks) : tasks[j].pc # "scheduled"
    /\ \E call \in call_results(tasks[i], _symbols) :
         \E r \in task_results(tasks[i], call) :
            /\ sessions' = [sessions EXCEPT ![tasks[i].session] = "closed"]
            /\ tasks' = [tasks EXCEPT ![i].pc = "done", ![i].fetched = call,
                                      ![i].out = r.out,
                                      ![i].raised = r.raised,
                                      ![i].invoked = r.invoked,
                                      ![i].computed = r.computed]
    /\ out_of_order' = (out_of_order \/ \E j \in 1..(i - 1) : tasks[j].pc # "done")
    /\ UNCHANGED << configurations_arg, request_symbols, _symbols, _use_multi_timeframe,
                    _candle_configurations, build_pc, features, summary, calls >>

\* a wait that returns with the first task that completes
gather_first_completed(ts) == \E i \in 1..Len(ts) : ts[i].pc = "done"

\* a gather under a deadline, which gives up on the tasks still waiting
gather_with_deadline(ts) == \A i \in 1..Len(ts) : ts[i].pc \in {"done", "open"}

\* a wait that resumes only when every task has brought data
gather_until_data(ts) == \A i \in 1..Len(ts) : ts[i].pc = "done" /\ ts[i].out.val # <<>>

\* `await asyncio.gather(*tasks, ...)` resumes build() when every task has
\* completed
gather_done(ts) == \A i \in 1..Len(ts) : ts[i].pc = "done"

\* gather returns once every task is done; build() assembles and returns
Join ==
    /\ build_pc = "gather"
    /\ gather_done(tasks)
    /\ LET a == assemble(gather(tasks), _use_multi_timeframe)
       IN  /\ build_pc' = IF a.raised THEN "raised" ELSE "returned"
           /\ features' = a.features
           /\ summary' = a.summary
    /\ UNCHANGED << configurations_arg, request_symbols, _symbols, _use_multi_timeframe,
                    _candle_configurations, tasks, sessions, calls, out_of_order >>

-----------------------------------------------------------------------------
(* SimpleMarketDataSource: symbols, dicts, exchange responses *)

ETH_USDT_DASH == <<"ETH", "-", "USDT">>
BTC_USDT_SWAP == <<"BTC", "/", "USDT", ":", "USDT">>
ETH_USDT_SWAP == <<"ETH", "/", "USDT", ":", "USDT">>

\* symbols a data-source call may be given
SourceSymbols == {BTC_USDT, ETH_USDT_DASH, BTC_USDT_SWAP}

\* str.replace("-", "/")
replace_dash(s) == [i \in 1..Len(s) |-> IF s[i] = "-" THEN "/" ELSE s[i]]

Contains(s, tok) == \E i \in 1..Len(s) : s[i] = tok

MinOf(S) == CHOOSE x \in S : \A y \in S : x <= y

\* str.split(sep)
RECURSIVE split(_, _)
split(s, sep) ==
    IF ~Contains(s, sep) THEN << s >>
    ELSE LET k == MinOf({i \in 1..Len(s) : s[i] = sep})
         IN  << SubSeq(s, 1, k - 1) >> \o split(SubSeq(s, k + 1, Len(s)), sep)

\* the swap suffix added whatever the market type
ccxt_symbol_any_market(symbol, market_type) ==
    LET base_symbol == replace_dash(symbol)
        parts == split(base_symbol, "/")
    IN  IF ~Contains(base_symbol, ":") /\ Len(parts) = 2
        THEN parts[1] \o << "/" >> \o parts[2] \o << ":" >> \o parts[2]
        ELSE base_symbol

_get_ccxt_symbol(symbol, market_type) ==
    LET base_symbol == replace_dash(symbol)
        parts == split(base_symbol, "/")
    IN  IF market_type = "spot" THEN base_symbol
        ELSE IF ~Contains(base_symbol, ":") /\ Len(parts) = 2
             THEN parts[1] \o << "/" >> \o parts[2] \o << ":" >> \o parts[2]
             ELSE base_symbol

\* a dict as the sequence of its items, in insertion order
HasKey(d, k) == \E i \in 1..Len(d) : d[i].key = k
dict_get(d, k) == d[CHOOSE i \in 1..Len(d) : d[i].key = k].value
dict_set(d, k, v) ==
    IF HasKey(d, k)
    THEN [i \in 1..Len(d) |-> IF d[i].key = k THEN [key |-> k, value |-> v] ELSE d[i]]
    ELSE Append(d, [key |-> k, value |-> v])

\* snapshot[symbol][field] = payload, on a defaultdict(dict); the payload is
\* opaque, the inner dict is the set of its field names
snapshot_set(d, symbol, field) ==
    dict_set(d, symbol, (IF HasKey(d, symbol) THEN dict_get(d, symbol) ELSE {}) \cup {field})

DEFAULT_TIMEFRAMES ==
    << [key |-> "1m", value |-> 120], [key |-> "15m", value |-> 96],
       [key |-> "1h", value |-> 168], [key |-> "4h", value |-> 180],
       [key |-> "1d", value |-> 90] >>

\* the catalogues load_markets may load
Catalogues == { {BTC_USDT_SWAP, ETH_USDT_SWAP}, {BTC_USDT_SWAP} }

\* the responses fetch_ohlcv may give for a limit: at most `limit` rows, in
\* chronological order, each either a (ts, o, h, l, c, v) row or a malformed one
raw_responses(limit) ==
    UNION { { [i \in 1..n |-> [ts |-> i, well_formed |-> w[i]]] : w \in [1..n -> BOOLEAN] }
              : n \in 0..(IF limit < MaxRows THEN limit ELSE MaxRows) }

rows_ok(raw) == \A i \in 1..Len(raw) : raw[i].well_formed

\* the rows taken newest first
parse_rows_newest_first(raw, symbol, timeframe) ==
    LET bad == {i \in 1..Len(raw) : ~raw[i].well_formed}
        n == IF bad = {} THEN Len(raw) ELSE MinOf(bad) - 1
    IN  [i \in 1..n |-> Candle(raw[n + 1 - i].ts, symbol, timeframe)]

\* `for row in raw: ... all_candles.append(Candle(...))`: the candles appended
\* before the loop ends or a row fails to unpack or convert
parse_rows(raw, symbol, timeframe) ==
    LET bad == {i \in 1..Len(raw) : ~raw[i].well_formed}
        n == IF bad = {} THEN Len(raw) ELSE MinOf(bad) - 1
    IN  [i \in 1..n |-> Candle(raw[i].ts, symbol, timeframe)]

Event(op, symbol, timeframe, limit, ok, rows) ==
    [op |-> op, symbol |-> symbol, timeframe |-> timeframe, limit |-> limit,
     ok |-> ok, rows |-> rows]

\* an iteration of a symbol loop: the index of its symbol, what it asked
LogEntry(i, event) == [sym |-> i, event |-> event]

NoExchange == [status |-> "none", loaded |-> FALSE, markets |-> {}]

NoCounts == [create |-> 0, load_markets |-> 0, fetch |-> 0, close |-> 0]

Count(field) == [s_counts EXCEPT ![field] = @ + 1]

NoCall == [method |-> "", symbols |-> <<>>, interval |-> "", lookback |-> 0,
           timeframes |-> <<>>]

\* One iteration of the per-symbol loop of get_recent_candles and of
\* get_multi_timeframe_candles: the symbol is missing from the catalogue, or
\* fetch_ohlcv raises, or it answers and the rows are parsed.  Yields the
\* exchange request made (if any), the candles appended and whether the
\* iteration ended in the handler or the `continue`.
symbol_step_outcomes(markets, symbol, timeframe, limit) ==
    LET ccxt_symbol == _get_ccxt_symbol(symbol, "swap")
    IN  IF ccxt_symbol \notin markets
        THEN { [event |-> Event("lookup", ccxt_symbol, timeframe, limit, FALSE, <<>>),
                fetched |-> FALSE, candles |-> <<>>, skipped |-> TRUE] }
        ELSE { [event |-> Event("fetch_ohlcv", ccxt_symbol, timeframe, limit, FALSE, <<>>),
                fetched |-> TRUE, candles |-> <<>>, skipped |-> TRUE] }
             \cup
             { [event |-> Event("fetch_ohlcv", ccxt_symbol, timeframe, limit, TRUE, raw),
                fetched |-> TRUE, candles |-> parse_rows(raw, symbol, timeframe),
                skipped |-> ~rows_ok(raw)] : raw \in raw_responses(limit) }

\* `break` where the code has `continue` and a handler that goes on
next_symbol_pc_break(i, n, skipped) == IF i < n /\ ~skipped THEN "symbols" ELSE "close"

\* where the loop goes after the symbol at index i of n
next_symbol_pc(i, n, skipped) == IF i < n THEN "symbols" ELSE "close"

\* the `finally`: close() is awaited and whatever it raises is swallowed
close_statuses == {"closed", "close_failed"}

\* a retried close(): the call stays in its `finally` until close() succeeds
after_close_retries(status) == IF status = "closed" THEN "returned" ELSE "close"

\* close() raising leaves the call
after_close_propagates(status) == IF status = "closed" THEN "returned" ELSE "raised"

after_close(status) == "returned"

\* a handler that returns at once, without the `finally`
load_failed_pc_returns == "returned"

\* a handler around load_markets alone, the loop running after it
load_failed_pc_loops == "symbols"

\* load_markets raised: the outer handler logs, then the `finally` runs
load_failed_pc == "close"

-----------------------------------------------------------------------------
(* get_recent_candles *)

RecentCalls ==
    { [method |-> "get_recent_candles", symbols |-> ss, interval |-> iv,
       lookback |-> lb, timeframes |-> <<>>]
        : ss \in SeqsUpTo(SourceSymbols, MaxSymbols), iv \in {"1s", "1m", "1h"},
          lb \in {1, 3} }

\* the first statements of get_recent_candles(symbols, interval, lookback):
\* `interval` is rebound by the fallback and _create_exchange is called
recent_call_start(c) ==
    /\ s_call' = c
    /\ s_interval' = fallback_interval(c.interval)
    /\ s_counts' = Count("create")

\* the call up to its first await: the interval fallback, then
\* _create_exchange, outside any try -- what it raises leaves the call
RecentCall ==
    /\ s_pc = "idle"
    /\ \E c \in RecentCalls : recent_call_start(c)
    /\ \/ s_exchange' = [s_exchange EXCEPT !.status = "open"] /\ s_pc' = "load_markets"
       \/ s_exchange' = s_exchange /\ s_pc' = "raised"
    /\ UNCHANGED << s_tf, s_sym, s_all_candles, s_result, s_snapshot, s_success_count, s_retval,
                    s_log, pipeline_vars, router_vars >>

\* load_markets answers, or raises into the outer handler
RecentLoadMarkets ==
    /\ s_pc = "load_markets"
    /\ s_call.method = "get_recent_candles"
    /\ s_counts' = Count("load_markets")
    /\ \/ \E m \in Catalogues :
            /\ s_exchange' = [s_exchange EXCEPT !.loaded = TRUE, !.markets = m]
            /\ s_pc' = IF s_call.symbols = <<>> THEN "close" ELSE "symbols"
       \/ /\ s_exchange' = s_exchange
          /\ s_pc' = load_failed_pc
    /\ UNCHANGED << s_call, s_interval, s_tf, s_sym, s_all_candles, s_result, s_snapshot,
                    s_success_count, s_retval, s_log, pipeline_vars, router_vars >>

RecentSymbol ==
    /\ s_pc = "symbols"
    /\ s_call.method = "get_recent_candles"
    /\ \E o \in symbol_step_outcomes(s_exchange.markets, s_call.symbols[s_sym],
                                     s_interval, s_call.lookback) :
        /\ s_log' = Append(s_log, LogEntry(s_sym, o.event))
        /\ s_all_candles' = s_all_candles \o o.candles
        /\ s_counts' = IF o.fetched THEN Count("fetch") ELSE s_counts
        /\ s_pc' = next_symbol_pc(s_sym, Len(s_call.symbols), o.skipped)
    /\ s_sym' = s_sym + 1
    /\ UNCHANGED << s_call, s_interval, s_exchange, s_tf, s_result, s_snapshot, s_success_count,
                    s_retval, pipeline_vars, router_vars >>

RecentClose ==
    /\ s_pc = "close"
    /\ s_call.method = "get_recent_candles"
    /\ s_counts' = Count("close")
    /\ \E st \in close_statuses :
        /\ s_exchange' = [s_exchange EXCEPT !.status = st]
        /\ s_pc' = after_close(st)
    /\ s_retval' = List(s_all_candles)
    /\ UNCHANGED << s_call, s_interval, s_tf, s_sym, s_all_candles, s_result, s_snapshot,
                    s_success_count, s_log, pipeline_vars, router_vars >>

-----------------------------------------------------------------------------
(* get_multi_timeframe_candles *)

\* the timeframes argument: None, or a dict {timeframe: limit}
TimeframeDicts ==
    { <<>>,
      << [key |-> "1s", value |-> 2] >>,
      << [key |-> "1h", value |-> 1] >>,
      << [key |-> "1s", value |-> 2], [key |-> "1h", value |-> 1] >> }

\* calls with the default table name at most one symbol
MultiCalls ==
    { [method |-> "get_multi_timeframe_candles", symbols |-> ss, interval |-> "",
       lookback |-> 0, timeframes |-> ListArg(d)]
        : ss \in SeqsUpTo(SourceSymbols, MaxSymbols), d \in TimeframeDicts }
    \cup
    { [method |-> "get_multi_timeframe_candles", symbols |-> ss, interval |-> "",
       lookback |-> 0, timeframes |-> NoneArg]
        : ss \in {<<>>, << BTC_USDT >>, << ETH_USDT_DASH >>} }

\* `if timeframes is None: timeframes = self.DEFAULT_TIMEFRAMES`
timeframes_or_default(arg) == IF arg.given THEN arg.value ELSE DEFAULT_TIMEFRAMES

Timeframes == timeframes_or_default(s_call.timeframes)

MultiCall ==
    /\ s_pc = "idle"
    /\ \E c \in MultiCalls : s_call' = c
    /\ s_counts' = Count("create")
    /\ \/ s_exchange' = [s_exchange EXCEPT !.status = "open"] /\ s_pc' = "load_markets"
       \/ s_exchange' = s_exchange /\ s_pc' = "raised"
    /\ UNCHANGED << s_interval, s_tf, s_sym, s_all_candles, s_result, s_snapshot,
                    s_success_count, s_retval, s_log, pipeline_vars, router_vars >>

MultiLoadMarkets ==
    /\ s_pc = "load_markets"
    /\ s_call.method = "get_multi_timeframe_candles"
    /\ s_counts' = Count("load_markets")
    /\ \/ \E m \in Catalogues :
            /\ s_exchange' = [s_exchange EXCEPT !.loaded = TRUE, !.markets = m]
            /\ s_pc' = IF Timeframes = <<>> THEN "close" ELSE "timeframe"
       \/ /\ s_exchange' = s_exchange
          /\ s_pc' = load_failed_pc
    /\ UNCHANGED << s_call, s_interval, s_tf, s_sym, s_all_candles, s_result,
                    s_snapshot, s_success_count, s_retval, s_log, pipeline_vars, router_vars >>

\* one iteration of the inner loop, for the current timeframe
MultiSymbol ==
    /\ s_pc = "timeframe"
    /\ s_call.method = "get_multi_timeframe_candles"
    /\ s_sym <= Len(s_call.symbols)
    /\ \E o \in symbol_step_outcomes(s_exchange.markets, s_call.symbols[s_sym],
                                     Timeframes[s_tf].key, Timeframes[s_tf].value) :
        /\ s_log' = Append(s_log, LogEntry(s_sym, o.event))
        /\ s_all_candles' = s_all_candles \o o.candles
        /\ s_counts' = IF o.fetched THEN Count("fetch") ELSE s_counts
    /\ s_sym' = s_sym + 1
    /\ UNCHANGED << s_call, s_pc, s_interval, s_exchange, s_tf, s_result, s_snapshot,
                    s_success_count, s_retval, pipeline_vars, router_vars >>

\* a loop that loads the catalogue again for every timeframe
next_timeframe_pc_reloads(i, n) == IF i < n THEN "load_markets" ELSE "close"

\* a loop left after its first timeframe
next_timeframe_pc_breaks(i, n) == "close"

\* where the outer loop goes after the timeframe at index i of n
next_timeframe_pc(i, n) == IF i < n THEN "timeframe" ELSE "close"

\* the inner loop is over: result[timeframe] = candles, next timeframe
MultiTimeframeDone ==
    /\ s_pc = "timeframe"
    /\ s_call.method = "get_multi_timeframe_candles"
    /\ s_sym > Len(s_call.symbols)
    /\ s_result' = dict_set(s_result, Timeframes[s_tf].key, s_all_candles)
    /\ s_all_candles' = <<>>
    /\ s_log' = <<>>
    /\ s_sym' = 1
    /\ s_tf' = s_tf + 1
    /\ s_pc' = next_timeframe_pc(s_tf, Len(Timeframes))
    /\ UNCHANGED << s_call, s_interval, s_exchange, s_snapshot, s_success_count,
                    s_retval, s_counts, pipeline_vars, router_vars >>

MultiClose ==
    /\ s_pc = "close"
    /\ s_call.method = "get_multi_timeframe_candles"
    /\ s_counts' = Count("close")
    /\ \E st \in close_statuses :
        /\ s_exchange' = [s_exchange EXCEPT !.status = st]
        /\ s_pc' = after_close(st)
    /\ s_retval' = List(s_result)
    /\ UNCHANGED << s_call, s_interval, s_tf, s_sym, s_all_candles, s_result,
                    s_snapshot, s_success_count, s_log, pipeline_vars, router_vars >>

-----------------------------------------------------------------------------
(* get_market_snapshot *)

SnapshotCalls ==
    { [method |-> "get_market_snapshot", symbols |-> ss, interval |-> "",
       lookback |-> 0, timeframes |-> <<>>]
        : ss \in SeqsUpTo(SourceSymbols, MaxSymbols) }

SnapshotCall ==
    /\ s_pc = "idle"
    /\ \E c \in SnapshotCalls : s_call' = c
    /\ s_counts' = Count("create")
    /\ \/ s_exchange' = [s_exchange EXCEPT !.status = "open"] /\ s_pc' = "load_markets"
       \/ s_exchange' = s_exchange /\ s_pc' = "raised"
    /\ UNCHANGED << s_interval, s_tf, s_sym, s_all_candles, s_result, s_snapshot,
                    s_success_count, s_retval, s_log, pipeline_vars, router_vars >>

SnapshotLoadMarkets ==
    /\ s_pc = "load_markets"
    /\ s_call.method = "get_market_snapshot"
    /\ s_counts' = Count("load_markets")
    /\ \/ \E m \in Catalogues :
            /\ s_exchange' = [s_exchange EXCEPT !.loaded = TRUE, !.markets = m]
            /\ s_pc' = IF s_call.symbols = <<>> THEN "close" ELSE "fetch_ticker"
       \/ /\ s_exchange' = s_exchange
          /\ s_pc' = load_failed_pc
    /\ UNCHANGED << s_call, s_interval, s_tf, s_sym, s_all_candles, s_result,
                    s_snapshot, s_success_count, s_retval, s_log, pipeline_vars, router_vars >>

\* where the snapshot loop goes once the symbol at index i of n is finished
next_ticker_pc(i, n) == IF i < n THEN "fetch_ticker" ELSE "close"

\* a ticker failure that still goes on to the optional fields
after_ticker_goes_on(ok, i, n) == "fetch_funding_rate"

\* after fetch_ticker: on success the optional fields, on failure the next symbol
after_ticker(ok, i, n) == IF ok THEN "fetch_funding_rate" ELSE next_ticker_pc(i, n)

\* a funding-rate failure that gives up the symbol
after_funding_rate_aborts(ok) == IF ok THEN "fetch_open_interest" ELSE "fetch_ticker"

\* after fetch_funding_rate, whatever its outcome: the open interest
after_funding_rate(ok) == "fetch_open_interest"

\* the fields of the symbol after an optional fetch
store_optional(d, symbol, field, ok) == IF ok THEN snapshot_set(d, symbol, field) ELSE d

\* a look at snapshot[symbol] before the ticker is there: the defaultdict
\* makes the entry, and a failed ticker leaves it empty
store_price_touches_entry(d, symbol, ok) ==
    IF ok THEN snapshot_set(d, symbol, "price")
    ELSE IF HasKey(d, symbol) THEN d ELSE dict_set(d, symbol, {})

\* `ticker = await exchange.fetch_ticker(...)`, then
\* `snapshot[symbol]["price"] = ticker`: the entry is made only once the
\* ticker is there
store_price(d, symbol, ok) == IF ok THEN snapshot_set(d, symbol, "price") ELSE d

SnapshotTicker ==
    /\ s_pc = "fetch_ticker"
    /\ \E ok \in BOOLEAN :
        /\ s_log' = Append(s_log, LogEntry(s_sym,
                        Event("fetch_ticker", _get_ccxt_symbol(s_call.symbols[s_sym], "swap"),
                              "", 0, ok, <<>>)))
        /\ s_snapshot' = store_price(s_snapshot, s_call.symbols[s_sym], ok)
        /\ s_success_count' = IF ok THEN s_success_count + 1 ELSE s_success_count
        /\ s_pc' = after_ticker(ok, s_sym, Len(s_call.symbols))
        /\ s_sym' = IF ok THEN s_sym ELSE s_sym + 1
    /\ s_counts' = Count("fetch")
    /\ UNCHANGED << s_call, s_interval, s_exchange, s_tf, s_all_candles, s_result,
                    s_retval, pipeline_vars, router_vars >>

SnapshotFundingRate ==
    /\ s_pc = "fetch_funding_rate"
    /\ \E ok \in BOOLEAN :
        /\ s_log' = Append(s_log, LogEntry(s_sym,
                        Event("fetch_funding_rate", _get_ccxt_symbol(s_call.symbols[s_sym], "swap"),
                              "", 0, ok, <<>>)))
        /\ s_snapshot' = store_optional(s_snapshot, s_call.symbols[s_sym], "funding_rate", ok)
        /\ s_pc' = after_funding_rate(ok)
    /\ s_counts' = Count("fetch")
    /\ UNCHANGED << s_call, s_interval, s_exchange, s_tf, s_sym, s_all_candles,
                    s_result, s_success_count, s_retval, pipeline_vars, router_vars >>

SnapshotOpenInterest ==
    /\ s_pc = "fetch_open_interest"
    /\ \E ok \in BOOLEAN :
        /\ s_log' = Append(s_log, LogEntry(s_sym,
                        Event("fetch_open_interest", _get_ccxt_symbol(s_call.symbols[s_sym], "swap"),
                              "", 0, ok, <<>>)))
        /\ s_snapshot' = store_optional(s_snapshot, s_call.symbols[s_sym], "open_interest", ok)
    /\ s_pc' = next_ticker_pc(s_sym, Len(s_call.symbols))
    /\ s_sym' = s_sym + 1
    /\ s_counts' = Count("fetch")
    /\ UNCHANGED << s_call, s_interval, s_exchange, s_tf, s_all_candles, s_result,
                    s_success_count, s_retval, pipeline_vars, router_vars >>

SnapshotClose ==
    /\ s_pc = "close"
    /\ s_call.method = "get_market_snapshot"
    /\ s_counts' = Count("close")
    /\ \E st \in close_statuses :
        /\ s_exchange' = [s_exchange EXCEPT !.status = st]
        /\ s_pc' = after_close(st)
    /\ s_retval' = List(s_snapshot)
    /\ UNCHANGED << s_call, s_interval, s_tf, s_sym, s_all_candles, s_result,
                    s_snapshot, s_success_count, s_log, pipeline_vars, router_vars >>

-----------------------------------------------------------------------------
(* Specifications *)

\* a data source on which no call has been made
SourceInit ==
    /\ s_call = NoCall
    /\ s_pc = "idle"
    /\ s_interval = ""
    /\ s_exchange = NoExchange
    /\ s_tf = 1
    /\ s_sym = 1
    /\ s_all_candles = <<>>
    /\ s_result = <<>>
    /\ s_snapshot = <<>>
    /\ s_success_count = 0
    /\ s_retval = NoneVal
    /\ s_log = <<>>
    /\ s_counts = NoCounts

\* no provider file, an empty environment and no request to the router
RouterIdle ==
    /\ r_call = [endpoint |-> ""]
    /\ r_pc = "idle"
    /\ r_yaml = [exists |-> FALSE]
    /\ r_environ = <<>>
    /\ r_env_file = <<>>
    /\ r_pings = <<>>
    /\ r_response = [status |-> 0]

\* build() on a pipeline
Init == PipelineInit /\ SourceInit /\ RouterIdle

Next ==
    \/ BuildStart /\ UNCHANGED << source_vars, router_vars >>
    \/ \E i \in 1..(Len(_candle_configurations) + 1) : TaskStart(i) /\ UNCHANGED << source_vars, router_vars >>
    \/ \E i \in 1..(Len(_candle_configurations) + 1) : TaskReturn(i) /\ UNCHANGED << source_vars, router_vars >>
    \/ Join /\ UNCHANGED << source_vars, router_vars >>

Spec == Init /\ [][Next]_vars

\* build() is called again on the pipeline, after the call before it has
\* returned: its locals are new, the pipeline is the one __init__ left, and
\* the calls made on the data source so far stay on record
BuildAgain ==
    /\ build_pc = "returned"
    /\ Len(calls) < MaxBuilds * (Len(_candle_configurations) + 1)
    /\ build_pc' = "idle"
    /\ tasks' = <<>>
    /\ sessions' = <<>>
    /\ features' = <<>>
    /\ summary' = NoSummary
    /\ out_of_order' = FALSE
    /\ UNCHANGED << configurations_arg, request_symbols, _symbols, _use_multi_timeframe,
                    _candle_configurations, calls >>

NextBuilds ==
    \/ Next
    \/ BuildAgain /\ UNCHANGED << source_vars, router_vars >>

\* successive build() calls on one pipeline
SpecBuilds == Init /\ [][NextBuilds]_vars

\* the event loop runs a coroutine handed to gather
StartTask ==
    /\ \E i \in 1..(Len(_candle_configurations) + 1) : TaskStart(i)
    /\ UNCHANGED << source_vars, router_vars >>

\* the event loop resumes build() once gather is done: the await ends
Resume ==
    /\ build_pc = "gather"
    /\ gather_done(tasks)
    /\ build_pc' \in {"returned", "raised"}

\* task i is inside its call on the data source
InCall(i) == i \in 1..Len(tasks) /\ tasks[i].pc = "open"

\* build() on an event loop that runs what can run (a task that can start is
\* started, a build() that can resume is resumed), with an exchange whose
\* every call comes back: no task stays inside its call for ever
SpecFair ==
    /\ Spec
    /\ WF_vars(StartTask)
    /\ WF_build_pc(Resume)
    /\ \A i \in 1..(Len(MULTI_TIMEFRAME_CONFIGS) + 1) : []<>(~InCall(i))

\* a pipeline that is not running
PipelineIdle ==
    /\ configurations_arg = NoneArg
    /\ request_symbols = <<>>
    /\ _symbols = <<>>
    /\ _use_multi_timeframe = TRUE
    /\ _candle_configurations = MULTI_TIMEFRAME_CONFIGS
    /\ build_pc = "idle"
    /\ tasks = <<>>
    /\ sessions = <<>>
    /\ features = <<>>
    /\ summary = NoSummary
    /\ calls = <<>>
    /\ out_of_order = FALSE

\* one call on a data source (beside a pipeline that is not running)
InitSource == SourceInit /\ RouterIdle /\ PipelineIdle

NextSource ==
    \/ RecentCall \/ RecentLoadMarkets \/ RecentSymbol \/ RecentClose
    \/ MultiCall \/ MultiLoadMarkets \/ MultiSymbol \/ MultiTimeframeDone \/ MultiClose
    \/ SnapshotCall \/ SnapshotLoadMarkets \/ SnapshotTicker \/ SnapshotFundingRate
    \/ SnapshotOpenInterest \/ SnapshotClose

SpecSource == InitSource /\ [][NextSource]_vars

\* the call a candle task of build() makes, as get_recent_candles receives it
source_call(c) ==
    [method |-> c.method, symbols |-> c.symbols, interval |-> c.interval,
     lookback |-> c.lookback, timeframes |-> <<>>]

\* the data source runs the call of a candle task of build() whose session
\* was created: `await self._market_data_source.get_recent_candles(
\* self._symbols, interval, lookback)`
CandleTaskCall ==
    /\ s_pc = "idle"
    /\ \E i \in 1..Len(tasks) :
        /\ tasks[i].kind = "candles"
        /\ tasks[i].pc = "open"
        /\ recent_call_start(source_call(calls[i]))
    /\ s_exchange' = [s_exchange EXCEPT !.status = "open"]
    /\ s_pc' = "load_markets"
    /\ UNCHANGED << s_tf, s_sym, s_all_candles, s_result, s_snapshot, s_success_count, s_retval,
                    s_log, pipeline_vars, router_vars >>

\* a pipeline constructed with use_multi_timeframe=False and no table
InitLegacy == Init /\ ~_use_multi_timeframe /\ ~configurations_arg.given

NextLegacy ==
    \/ BuildStart /\ UNCHANGED << source_vars, router_vars >>
    \/ StartTask
    \/ CandleTaskCall \/ RecentLoadMarkets \/ RecentSymbol \/ RecentClose

\* build() of a legacy pipeline up to its await, and get_recent_candles
\* running the call of one of its candle tasks
SpecLegacy == InitLegacy /\ [][NextLegacy]_vars

\* one call on a data source whose every exchange call comes back: a step
\* of the call that stays possible is taken
SpecSourceFair == SpecSource /\ WF_vars(NextSource)

-----------------------------------------------------------------------------
(* Properties of build(), checked under Spec *)

K == Len(_candle_configurations)

AllDone == build_pc # "idle" /\ \A i \in 1..Len(tasks) : tasks[i].pc = "done"

\* C1: build() never raises.  Whatever get_recent_candles, get_market_snapshot
\* and the two feature computers return or raise, and whatever the timeframe
\* table, build() does not end in an exception: once every task is done it
\* returns a result.
C1_BuildNeverRaises == build_pc # "raised"

\* a build that returned an empty result although a data-source call raised, a
\* feature computer raised and a fetch came back empty
C1_Witness ==
    /\ build_pc = "returned"
    /\ features = <<>>
    /\ \E i \in 1..Len(tasks) : tasks[i].raised /\ ~tasks[i].invoked
    /\ \E i \in 1..Len(tasks) : tasks[i].raised /\ tasks[i].invoked
    /\ \E i \in 1..Len(tasks) :
          tasks[i].kind = "candles" /\ ~tasks[i].raised /\ ~tasks[i].invoked

\* what a task is due to contribute: nothing if its fetch or its computer
\* raised, otherwise what its computer returned
contribution(t) == IF t.raised THEN <<>> ELSE t.computed

\* C2: a task that raises contributes exactly an empty list at its own
\* position and every other task's features appear in the result unchanged:
\* the build is not aborted, and the result is the tasks' contributions, each
\* in its place.
C2_FailureIsolated ==
    build_pc \in {"returned", "raised"} =>
        /\ build_pc = "returned"
        /\ features = chain_from_iterable([i \in 1..Len(tasks) |-> contribution(tasks[i])])

\* one timeframe task raised, and the features of another timeframe and of the
\* snapshot are in the result
C2_Witness ==
    /\ build_pc = "returned"
    /\ \E i, j \in 1..K :
          /\ tasks[i].raised
          /\ tasks[j].computed # <<>>
          /\ \A n \in 1..Len(tasks[j].computed) :
                \E m \in 1..Len(features) : features[m] = tasks[j].computed[n]
    /\ tasks[K + 1].computed # <<>>
    /\ features[Len(features)] = tasks[K + 1].computed[Len(tasks[K + 1].computed)]

\* C3: the returned list is the concatenation, nothing removed, of the
\* timeframe tasks' lists in table order followed by the snapshot task's list,
\* whatever the order in which the tasks finished.
C3_ResultOrder ==
    build_pc = "returned" =>
        /\ Len(tasks) = K + 1
        /\ \A i \in 1..K : /\ tasks[i].kind = "candles"
                           /\ tasks[i].interval = _candle_configurations[i].interval
        /\ tasks[K + 1].kind = "snapshot"
        /\ features = chain_from_iterable([i \in 1..K |-> tasks[i].out.val])
                          \o tasks[K + 1].out.val

\* tasks finished out of submission order, and the first timeframe, a later
\* timeframe and the snapshot all produced features
C3_Witness ==
    /\ build_pc = "returned"
    /\ out_of_order
    /\ K >= 2
    /\ tasks[1].out.val # <<>>
    /\ tasks[K].out.val # <<>>
    /\ tasks[K + 1].out.val # <<>>

\* the calls build() is due to make, in submission order
expected_calls ==
    [i \in 1..(K + 1) |->
        IF i <= K
        THEN [method |-> "get_recent_candles", symbols |-> _symbols,
              interval |-> _candle_configurations[i].interval,
              lookback |-> _candle_configurations[i].lookback]
        ELSE [method |-> "get_market_snapshot", symbols |-> _symbols,
              interval |-> "", lookback |-> 0]]

\* C4: for a table of K entries one build() issues exactly K+1 tasks: one
\* get_recent_candles call per table entry, with that entry's interval and
\* lookback, and one get_market_snapshot call, no more and no fewer, repeated
\* intervals included.
C4_TaskCount ==
    /\ build_pc # "idle" => Len(tasks) = K + 1
    /\ Len(calls) <= K + 1
    /\ calls = SubSeq(expected_calls, 1, Len(calls))
    /\ build_pc \in {"returned", "raised"} => calls = expected_calls

\* a build over a table that names the same interval twice has returned
C4_Witness ==
    /\ build_pc = "returned"
    /\ K = 2
    /\ _candle_configurations[1].interval = _candle_configurations[2].interval
    /\ Len(calls) = 3

Started(i) == build_pc # "idle" /\ tasks[i].pc # "scheduled"

\* no session is used by two tasks; a task in flight has its session open and a
\* finished task has closed its own
SessionsNotShared ==
    /\ \A i, j \in 1..Len(tasks) :
          (i # j /\ tasks[i].session # 0) => tasks[i].session # tasks[j].session
    /\ \A i \in 1..Len(tasks) :
          /\ tasks[i].pc = "open" =>
                tasks[i].session \in 1..Len(sessions) /\ sessions[tasks[i].session] = "open"
          /\ (tasks[i].pc = "done" /\ tasks[i].session # 0) =>
                sessions[tasks[i].session] = "closed"

\* C6 as stated: every task uses its own session, which it creates and closes,
\* so that K+1 sessions have been created once every task has started.
C6_Original ==
    /\ SessionsNotShared
    /\ (build_pc # "idle" /\ \A i \in 1..Len(tasks) : Started(i)) => Len(sessions) = K + 1

\* C6 (amended): every task whose _create_exchange succeeds uses its own
\* session, which no other task uses and which that same call closes; a task
\* whose _create_exchange raises has no session.  So at most K+1 sessions are
\* created, one per successful creation, and exactly K+1 when none raises.
C6_OwnSessionPerTask ==
    /\ SessionsNotShared
    /\ build_pc # "idle" =>
          /\ Len(sessions) = Cardinality({i \in 1..Len(tasks) : tasks[i].session # 0})
          /\ \A i \in 1..Len(tasks) :
                (Started(i) /\ tasks[i].session = 0) =>
                    tasks[i].pc = "done" /\ tasks[i].raised /\ ~tasks[i].invoked
          /\ (\A i \in 1..Len(tasks) : Started(i) /\ tasks[i].session # 0) =>
                Len(sessions) = K + 1

\* the K+1 sessions of a build are open at the same time
C6_Witness ==
    /\ build_pc = "gather"
    /\ K >= 2
    /\ Len(sessions) = K + 1
    /\ \A i \in 1..Len(tasks) : tasks[i].pc = "open"

-----------------------------------------------------------------------------
(* Properties of SimpleMarketDataSource, checked under SpecSource *)

Method(m) == s_call.method = m

\* load_markets was awaited and raised
LoadFailed == s_counts.load_markets = 1 /\ ~s_exchange.loaded

InFlight ==
    s_pc \in {"load_markets", "symbols", "timeframe", "fetch_ticker", "fetch_funding_rate",
              "fetch_open_interest", "close"}

\* C5: in the three methods the session the call created is closed
\* (exchange.close() is invoked, once) on every exit path: after normal
\* completion, after a catalogue-load failure and after per-symbol failures;
\* a call whose session is still open has not returned.
C5_SessionClosed ==
    /\ s_pc = "returned" =>
          s_exchange.status \in {"closed", "close_failed"} /\ s_counts.close = 1
    /\ s_exchange.status = "open" => InFlight /\ s_counts.close = 0
    /\ s_pc = "raised" => s_exchange.status = "none"

\* get_market_snapshot has returned after load_markets raised, its session closed
C5_Witness ==
    /\ Method("get_market_snapshot")
    /\ s_pc = "returned"
    /\ LoadFailed
    /\ s_call.symbols # <<>>
    /\ s_exchange.status = "closed"

\* the number of candles the iterations in the log appended
RECURSIVE candles_logged(_)
candles_logged(log) ==
    IF log = <<>> THEN 0
    ELSE LET e == log[Len(log)].event
         IN  candles_logged(SubSeq(log, 1, Len(log) - 1))
             + (IF e.op = "fetch_ohlcv" /\ e.ok THEN Len(parse_rows(e.rows, <<>>, "")) ELSE 0)

\* the iteration answered with well-formed rows only
FetchedAll(entry) ==
    entry.event.op = "fetch_ohlcv" /\ entry.event.ok /\ rows_ok(entry.event.rows)

\* the iteration failed: the symbol is not in the catalogue, or fetch_ohlcv raised
SymbolFailed(entry) ==
    entry.event.op = "lookup" \/ (entry.event.op = "fetch_ohlcv" /\ ~entry.event.ok)

\* C7: in get_recent_candles a symbol that is absent from the catalogue or
\* whose fetch_ohlcv raises is skipped (it adds no candle) and the loop goes
\* on: once the catalogue is loaded every symbol of the list is attempted, in
\* order, and the candles of every symbol fetched are in the returned list.
C7_SymbolFailureIsolated ==
    Method("get_recent_candles") =>
        /\ (s_exchange.loaded /\ s_pc \in {"close", "returned"}) =>
              /\ Len(s_log) = Len(s_call.symbols)
              /\ \A k \in 1..Len(s_log) : s_log[k].sym = k
        /\ Len(s_all_candles) = candles_logged(s_log)
        /\ s_pc = "returned" =>
              \A k \in 1..Len(s_log) :
                  FetchedAll(s_log[k]) =>
                      \A r \in 1..Len(s_log[k].event.rows) :
                          \E m \in 1..Len(s_retval.val) :
                              s_retval.val[m] = Candle(s_log[k].event.rows[r].ts,
                                                       s_call.symbols[k], s_interval)

\* the first symbol is not in the catalogue, the second is fetched and its
\* candles are returned
C7_Witness ==
    /\ Method("get_recent_candles")
    /\ s_pc = "returned"
    /\ Len(s_call.symbols) = 2
    /\ Len(s_log) = 2
    /\ SymbolFailed(s_log[1])
    /\ FetchedAll(s_log[2])
    /\ Len(s_log[2].event.rows) >= 1
    /\ Len(s_retval.val) = Len(s_log[2].event.rows)

\* C8: when load_markets fails in get_recent_candles the call fetches nothing
\* for any symbol, closes the session, and only then returns an empty list.
C8_LoadFailureAborts ==
    (Method("get_recent_candles") /\ LoadFailed) =>
        /\ s_counts.fetch = 0
        /\ s_log = <<>>
        /\ s_all_candles = <<>>
        /\ s_pc \in {"close", "returned"}
        /\ s_pc = "close" => s_retval = NoneVal /\ s_counts.close = 0
        /\ s_pc = "returned" =>
              /\ s_retval = List(<<>>)
              /\ s_counts.close = 1
              /\ s_exchange.status \in {"closed", "close_failed"}

\* get_recent_candles for two symbols has returned [] after load_markets raised
C8_Witness ==
    /\ Method("get_recent_candles")
    /\ LoadFailed
    /\ s_pc = "returned"
    /\ Len(s_call.symbols) = 2
    /\ s_retval = List(<<>>)
    /\ s_counts.close = 1

\* C9 as stated: no call on the data source ends by raising, whatever fails,
\* session creation included.
C9_Original == s_pc # "raised"

\* C9 (amended): once its session is created, a call on the data source
\* never raises: whatever fails among catalogue load, symbol lookup, fetch,
\* optional-field fetch and session close, the call returns a result.  A call
\* raises only when _create_exchange raised, before anything else was done.
C9_NoErrorAfterCreation ==
    /\ s_exchange.status # "none" => s_pc # "raised"
    /\ s_pc = "raised" =>
          /\ s_counts = [NoCounts EXCEPT !.create = 1]
          /\ s_retval = NoneVal
    /\ s_pc = "returned" => s_retval.tag = "list"

\* a call has returned although load_markets and close() both raised
C9_Witness ==
    /\ s_pc = "returned"
    /\ LoadFailed
    /\ s_exchange.status = "close_failed"
    /\ s_retval.tag = "list"

OptionalOps == {"fetch_funding_rate", "fetch_open_interest"}

field_of(op) == IF op = "fetch_funding_rate" THEN "funding_rate" ELSE "open_interest"

Fields(d, symbol) == IF HasKey(d, symbol) THEN dict_get(d, symbol) ELSE {}

\* the iteration of the symbol at index i made the request op, with outcome ok
Outcome(i, op, ok) ==
    \E k \in 1..Len(s_log) :
        s_log[k].sym = i /\ s_log[k].event.op = op /\ s_log[k].event.ok = ok

Attempted(i, op) == Outcome(i, op, TRUE) \/ Outcome(i, op, FALSE)

\* C10: in get_market_snapshot, when an optional fetch of a symbol whose
\* price was fetched fails, that iteration omits only that field: "price"
\* stays, the field is in the symbol's entry only if another iteration of the
\* same symbol stored it (never, for a symbol listed once), the other optional
\* field is still attempted and kept when it succeeds, and the loop goes on
\* with the next symbol.
C10_OptionalFailureOmitsField ==
    Method("get_market_snapshot") =>
        \A i \in 1..Len(s_call.symbols) : \A op \in OptionalOps :
            Outcome(i, op, FALSE) =>
                LET symbol == s_call.symbols[i]
                    other == CHOOSE o \in OptionalOps : o # op
                IN  /\ Outcome(i, "fetch_ticker", TRUE)
                    /\ "price" \in Fields(s_snapshot, symbol)
                    /\ field_of(op) \in Fields(s_snapshot, symbol) =>
                          \E j \in 1..Len(s_call.symbols) :
                              j # i /\ s_call.symbols[j] = symbol /\ Outcome(j, op, TRUE)
                    /\ \/ Attempted(i, other)
                       \/ s_pc = "fetch_open_interest" /\ s_sym = i
                    /\ Outcome(i, other, TRUE) => field_of(other) \in Fields(s_snapshot, symbol)
                    /\ Attempted(i, "fetch_open_interest") =>
                          IF i < Len(s_call.symbols)
                          THEN \/ Attempted(i + 1, "fetch_ticker")
                               \/ s_pc = "fetch_ticker" /\ s_sym = i + 1
                          ELSE s_pc \in {"close", "returned"}
                    /\ s_pc = "returned" => s_retval = List(s_snapshot)

\* the funding rate of the first of two symbols failed: the returned entry of
\* that symbol has the price and the open interest, the second symbol is there
C10_Witness ==
    /\ Method("get_market_snapshot")
    /\ s_pc = "returned"
    /\ Len(s_call.symbols) = 2
    /\ s_call.symbols[1] # s_call.symbols[2]
    /\ Outcome(1, "fetch_funding_rate", FALSE)
    /\ Outcome(1, "fetch_open_interest", TRUE)
    /\ Outcome(2, "fetch_ticker", TRUE)
    /\ Fields(s_retval.val, s_call.symbols[1]) = {"price", "open_interest"}
    /\ HasKey(s_retval.val, s_call.symbols[2])

\* C11: in get_market_snapshot an iteration whose ticker fetch fails stores
\* nothing and creates no key: its optional fields are not attempted, the
\* symbol is a key of the mapping only if another iteration of the same symbol
\* fetched its price (never, for a symbol listed once), no key has an empty
\* sub-mapping, and the loop goes on with the remaining symbols.
C11_TickerFailureSkipsSymbol ==
    Method("get_market_snapshot") =>
        /\ \A k \in 1..Len(s_snapshot) : "price" \in s_snapshot[k].value
        /\ \A i \in 1..Len(s_call.symbols) :
              Outcome(i, "fetch_ticker", FALSE) =>
                  /\ ~Attempted(i, "fetch_funding_rate")
                  /\ ~Attempted(i, "fetch_open_interest")
                  /\ HasKey(s_snapshot, s_call.symbols[i]) =>
                        \E j \in 1..Len(s_call.symbols) :
                            /\ j # i
                            /\ s_call.symbols[j] = s_call.symbols[i]
                            /\ Outcome(j, "fetch_ticker", TRUE)
                  /\ IF i < Len(s_call.symbols)
                     THEN \/ Attempted(i + 1, "fetch_ticker")
                          \/ s_pc = "fetch_ticker" /\ s_sym = i + 1
                     ELSE s_pc \in {"close", "returned"}
                  /\ s_pc = "returned" => s_retval = List(s_snapshot)

\* the ticker of the first of two symbols failed: the returned mapping has no
\* key for it and holds the second symbol
C11_Witness ==
    /\ Method("get_market_snapshot")
    /\ s_pc = "returned"
    /\ Len(s_call.symbols) = 2
    /\ s_call.symbols[1] # s_call.symbols[2]
    /\ Outcome(1, "fetch_ticker", FALSE)
    /\ Outcome(2, "fetch_ticker", TRUE)
    /\ ~HasKey(s_retval.val, s_call.symbols[1])
    /\ HasKey(s_retval.val, s_call.symbols[2])

\* d is s with duplicates removed, first occurrence kept, order preserved
FirstIndex(s, x) == MinOf({i \in 1..Len(s) : s[i] = x})

IsDeduplicated(d, s) ==
    /\ \A a, b \in 1..Len(d) : a # b => d[a] # d[b]
    /\ {d[a] : a \in 1..Len(d)} = {s[i] : i \in 1..Len(s)}
    /\ \A a, b \in 1..Len(d) : a < b => FirstIndex(s, d[a]) < FirstIndex(s, d[b])

FetchEvents == {s_log[k].event : k \in {j \in 1..Len(s_log) : s_log[j].event.op = "fetch_ohlcv"}}

C14_MultiFallback ==
    Method("get_multi_timeframe_candles") =>
        \A e \in FetchEvents :
            /\ e.timeframe # "1s"
            /\ Timeframes[s_tf].key = "1s" => e.timeframe = "1m"

-----------------------------------------------------------------------------
(* Pure functions, applied to inputs drawn from bounded sets *)

\* the tokens a symbol string is made of: names and the three separators
SymbolTokens == {"BTC", "USDT", "/", "-", ":"}

MarketTypes == {"spot", "swap"}

\* _get_ccxt_symbol(symbol, market_type) is called and returns
CcxtSymbolCall ==
    /\ s_pc = "idle"
    /\ \E symbol \in SeqsUpTo(SymbolTokens, MaxTokens), market_type \in MarketTypes :
        /\ s_call' = [method |-> "_get_ccxt_symbol", symbol |-> symbol,
                      market_type |-> market_type]
        /\ s_retval' = [tag |-> "str", val |-> _get_ccxt_symbol(symbol, market_type)]
    /\ s_pc' = "returned"
    /\ UNCHANGED << s_interval, s_exchange, s_tf, s_sym, s_all_candles, s_result, s_snapshot,
                    s_success_count, s_log, s_counts, pipeline_vars, router_vars >>

\* the interval of the i-th feature of a trend when the features are spread
\* over `groups` interval groups
interval_at(i, groups) == IF groups = 2 /\ i % 2 = 0 THEN "4h" ELSE "1h"

\* a feature list with `bullish` bullish and `bearish` bearish features spread
\* over one or two interval groups, `others` features of no trend and
\* `ungrouped` bullish features that carry no interval
summary_features(bullish, bearish, groups, others, ungrouped) ==
    [i \in 1..bullish |-> Feature(interval_at(i, groups), BTC_USDT, "bullish")]
    \o [i \in 1..bearish |-> Feature(interval_at(i, groups), ETH_USDT, "bearish")]
    \o [i \in 1..others |-> Feature("1h", BTC_USDT, "none")]
    \o [i \in 1..ungrouped |-> Feature("", BTC_USDT, "bullish")]

\* _compute_multi_timeframe_summary(features) is called and returns
SummaryCall ==
    /\ s_pc = "idle"
    /\ \E bullish \in 0..MaxCount, bearish \in 0..MaxCount, groups \in {1, 2},
          others \in {0, 1}, ungrouped \in {0, 1} :
        LET fs == summary_features(bullish, bearish, groups, others, ungrouped)
        IN  /\ s_call' = [method |-> "_compute_multi_timeframe_summary",
                          bullish |-> bullish, bearish |-> bearish, groups |-> groups,
                          features |-> fs]
            /\ s_retval' = [tag |-> "dict", val |-> compute_multi_timeframe_summary(fs)]
    /\ s_pc' = "returned"
    /\ UNCHANGED << s_interval, s_exchange, s_tf, s_sym, s_all_candles, s_result, s_snapshot,
                    s_success_count, s_log, s_counts, pipeline_vars, router_vars >>

\* provider names a configuration may list
ProviderNames == {"openrouter", "siliconflow", "openai", "google"}

\* `for name in names: if name not in seen: ordered.append(name); seen.add(name)`
\* (seen is always the set of the names in ordered)
RECURSIVE append_unseen(_, _)
append_unseen(ordered, names) ==
    IF names = <<>> THEN ordered
    ELSE LET o == append_unseen(ordered, SubSeq(names, 1, Len(names) - 1))
             name == names[Len(names)]
         IN  IF Contains(o, name) THEN o ELSE Append(o, name)

PREFERRED == << "openrouter", "siliconflow" >>

\* an ordering that puts the preferred providers first whether listed or not
provider_order_always_preferred(names) == append_unseen(PREFERRED, names)

\* _preferred_provider_order: the preferred providers that are listed, in
\* their order, then the rest as listed
_preferred_provider_order(names) ==
    LET present == SelectAt(PREFERRED, {i \in 1..Len(PREFERRED) :
                                          Contains(names, PREFERRED[i])})
    IN  append_unseen(append_unseen(<<>>, present), names)

\* _preferred_provider_order(names) is called and returns
PreferredOrderCall ==
    /\ s_pc = "idle"
    /\ \E names \in SeqsUpTo(ProviderNames, MaxNames) :
        /\ s_call' = [method |-> "_preferred_provider_order", names |-> names]
        /\ s_retval' = List(_preferred_provider_order(names))
    /\ s_pc' = "returned"
    /\ UNCHANGED << s_interval, s_exchange, s_tf, s_sym, s_all_candles, s_result, s_snapshot,
                    s_success_count, s_log, s_counts, pipeline_vars, router_vars >>

InitFunctions == InitSource

NextFunctions ==
    \/ CcxtSymbolCall
    \/ SummaryCall
    \/ PreferredOrderCall

SpecFunctions == InitFunctions /\ [][NextFunctions]_vars

-----------------------------------------------------------------------------
(* Properties of the pure functions, checked under SpecFunctions *)

Returned(m) == s_call.method = m /\ s_pc = "returned"

Names == SymbolTokens \ {"/", "-", ":"}

HasToken(s, tok) == \E i \in 1..Len(s) : s[i] = tok

\* the string is BASE/QUOTE: two names around one slash
IsBaseQuote(s) == Len(s) = 3 /\ s[1] \in Names /\ s[2] = "/" /\ s[3] \in Names

\* out is s with every "-" turned into "/" and nothing added
OnlyDashesReplaced(s, out) ==
    /\ Len(out) = Len(s)
    /\ \A i \in 1..Len(s) : out[i] = (IF s[i] = "-" THEN "/" ELSE s[i])

\* C15 as stated: for a swap market "BASE/QUOTE" becomes "BASE/QUOTE:QUOTE",
\* every input that already contains ":" is returned unchanged, and for a
\* spot market no suffix is added.
C15_Original ==
    Returned("_get_ccxt_symbol") =>
        /\ (s_call.market_type = "swap" /\ IsBaseQuote(s_call.symbol)) =>
              s_retval.val = s_call.symbol \o << ":", s_call.symbol[3] >>
        /\ HasToken(s_call.symbol, ":") => s_retval.val = s_call.symbol
        /\ s_call.market_type = "spot" => Len(s_retval.val) = Len(s_call.symbol)

\* C15 (amended): for a swap market "BASE/QUOTE" becomes "BASE/QUOTE:QUOTE";
\* an input that already contains ":" gets no suffix but has every "-"
\* replaced by "/", so it is returned unchanged only when it holds no "-";
\* for a spot market no suffix is added and, again, only "-" is replaced.
C15_SwapSuffix ==
    Returned("_get_ccxt_symbol") =>
        /\ (s_call.market_type = "swap" /\ IsBaseQuote(s_call.symbol)) =>
              s_retval.val = s_call.symbol \o << ":", s_call.symbol[3] >>
        /\ HasToken(s_call.symbol, ":") =>
              /\ OnlyDashesReplaced(s_call.symbol, s_retval.val)
              /\ ~HasToken(s_call.symbol, "-") => s_retval.val = s_call.symbol
        /\ s_call.market_type = "spot" => OnlyDashesReplaced(s_call.symbol, s_retval.val)

\* "BTC-USDT:USDT" for a swap market came back as "BTC/USDT:USDT"
C15_Witness ==
    /\ Returned("_get_ccxt_symbol")
    /\ s_call.market_type = "swap"
    /\ s_call.symbol = << "BTC", "-", "USDT", ":", "USDT" >>
    /\ s_retval.val = << "BTC", "/", "USDT", ":", "USDT" >>

-----------------------------------------------------------------------------
(* Further properties of SimpleMarketDataSource, checked under SpecSource *)

\* one candle per row of the response, in row order
candles_of_rows(rows, symbol, interval) ==
    [r \in 1..Len(rows) |-> Candle(rows[r].ts, symbol, interval)]

\* the candles of the iterations in the log that fetched their symbol with
\* every row converted, in iteration order
RECURSIVE fetched_candles(_, _, _)
fetched_candles(log, symbols, interval) ==
    IF log = <<>> THEN <<>>
    ELSE LET entry == log[Len(log)]
         IN  fetched_candles(SubSeq(log, 1, Len(log) - 1), symbols, interval)
             \o (IF FetchedAll(entry)
                 THEN candles_of_rows(entry.event.rows, symbols[entry.sym], interval)
                 ELSE <<>>)

RECURSIVE appended_candles(_, _, _)
appended_candles(log, symbols, interval) ==
    IF log = <<>> THEN <<>>
    ELSE LET entry == log[Len(log)]
             bad == {r \in 1..Len(entry.event.rows) : ~entry.event.rows[r].well_formed}
             n == IF bad = {} THEN Len(entry.event.rows) ELSE MinOf(bad) - 1
         IN  appended_candles(SubSeq(log, 1, Len(log) - 1), symbols, interval)
             \o candles_of_rows(SubSeq(entry.event.rows, 1, n), symbols[entry.sym], interval)

-----------------------------------------------------------------------------
(* Further properties of build(), checked under Spec *)

CandleTasks == {i \in 1..Len(tasks) : tasks[i].kind = "candles"}

SnapshotTasks == {i \in 1..Len(tasks) : tasks[i].kind = "snapshot"}

\* C17: in a timeframe task of build() the candle feature computer is invoked
\* if and only if get_recent_candles returned at least one candle; an empty
\* fetch result gives that timeframe an empty feature list, the computer not
\* called and nothing raised.
C17_ComputerOnlyOnCandles ==
    \A i \in CandleTasks :
        tasks[i].pc = "done" =>
            /\ tasks[i].invoked <=>
                  (tasks[i].fetched.tag = "list" /\ tasks[i].fetched.val # <<>>)
            /\ tasks[i].fetched = List(<<>>) =>
                  /\ tasks[i].out = List(<<>>)
                  /\ ~tasks[i].raised
                  /\ tasks[i].computed = <<>>

\* a finished build in which one timeframe fetched nothing (computer not
\* called) and another fetched candles and had its features computed
C17_Witness ==
    /\ build_pc = "returned"
    /\ \E i, j \in CandleTasks :
          /\ tasks[i].fetched = List(<<>>) /\ ~tasks[i].invoked /\ tasks[i].session # 0
          /\ tasks[j].fetched.tag = "list" /\ tasks[j].fetched.val # <<>>
          /\ tasks[j].invoked /\ tasks[j].out.val # <<>>

\* C18: in the snapshot task of build(), an empty or None snapshot returned by
\* get_market_snapshot yields an empty snapshot feature list: the task's list
\* is empty and the result of build() holds the candle features only.
C18_EmptySnapshot ==
    \A i \in SnapshotTasks :
        (/\ tasks[i].pc = "done"
         /\ tasks[i].fetched.tag \in {"list", "none"}
         /\ tasks[i].fetched.val = <<>>) =>
            /\ tasks[i].out = List(<<>>)
            /\ build_pc = "returned" =>
                  \A f \in 1..Len(features) : features[f].interval # "snapshot"

\* get_market_snapshot returned None, the snapshot computer ran without
\* raising, and the finished build holds candle features only
C18_Witness ==
    /\ build_pc = "returned"
    /\ features # <<>>
    /\ \E i \in SnapshotTasks :
          /\ tasks[i].fetched = NoneVal
          /\ tasks[i].session # 0
          /\ tasks[i].invoked /\ ~tasks[i].raised
          /\ tasks[i].out = List(<<>>)

\* the candle tasks of build() are the entries of the table, in order
TasksFollowTable ==
    build_pc # "idle" =>
        /\ Len(tasks) = Len(_candle_configurations) + 1
        /\ \A i \in 1..Len(_candle_configurations) :
              /\ tasks[i].kind = "candles"
              /\ tasks[i].interval = _candle_configurations[i].interval
              /\ tasks[i].lookback = _candle_configurations[i].lookback

SuppliedTable == configurations_arg.given /\ configurations_arg.value # <<>>

\* C19 as stated: the table is fixed at construction; when the caller
\* supplies a list of entries build() issues its candle tasks for exactly
\* those entries, otherwise it uses a built-in default table; the table does
\* not change afterwards.
C19_Original ==
    /\ SuppliedTable => _candle_configurations = configurations_arg.value
    /\ ~SuppliedTable =>
          _candle_configurations \in {MULTI_TIMEFRAME_CONFIGS, LegacyConfigs}
    /\ TasksFollowTable

\* C19 (amended): the table is fixed at construction by the mode flag first:
\* in multi-timeframe mode it is the built-in five-entry table, whatever list
\* the caller supplies; with the mode off it is the caller's list when one
\* with entries is supplied and the two-entry table ("1s", 180), ("1m", 240)
\* otherwise.  build() issues its candle tasks for exactly the entries of
\* that table, in every state: the table does not change afterwards.
C19_TableFixedByMode ==
    /\ _use_multi_timeframe =>
          _candle_configurations =
              << CandleConfig("1m", 120), CandleConfig("15m", 96), CandleConfig("1h", 168),
                 CandleConfig("4h", 180), CandleConfig("1d", 90) >>
    /\ (~_use_multi_timeframe /\ SuppliedTable) =>
          _candle_configurations = configurations_arg.value
    /\ (~_use_multi_timeframe /\ ~SuppliedTable) =>
          _candle_configurations = << CandleConfig("1s", 180), CandleConfig("1m", 240) >>
    /\ TasksFollowTable

\* a multi-timeframe pipeline built with a caller-supplied table has run its
\* build over the five built-in entries
C19_Witness ==
    /\ build_pc = "returned"
    /\ _use_multi_timeframe
    /\ SuppliedTable
    /\ Len(calls) = 6
    /\ calls[1].interval = "1m" /\ calls[1].lookback = 120
    /\ \A c \in 1..Len(calls) : calls[c].interval # configurations_arg.value[1].interval
          \/ calls[c].lookback # configurations_arg.value[1].lookback

-----------------------------------------------------------------------------
(* The trend-alignment summary, checked under SpecFunctions *)

\* C20: _compute_multi_timeframe_summary tallies the bullish and the bearish
\* features of all interval groups together and classifies the two counts:
\* bullish > 2*bearish is "strong_bullish"; else bearish > 2*bullish is
\* "strong_bearish"; else bullish > bearish is "bullish"; else bearish >
\* bullish is "bearish"; else "neutral" -- for every pair of counts, however
\* the features are spread over the groups.
C20_TrendAlignment ==
    Returned("_compute_multi_timeframe_summary") =>
        LET b == s_call.bullish
            r == s_call.bearish
            a == s_retval.val.trend_alignment
        IN  /\ b > 2 * r => a = "strong_bullish"
            /\ (b <= 2 * r /\ r > 2 * b) => a = "strong_bearish"
            /\ (b <= 2 * r /\ r <= 2 * b /\ b > r) => a = "bullish"
            /\ (b <= 2 * r /\ r <= 2 * b /\ r > b) => a = "bearish"
            /\ b = r => a = "neutral"
            /\ (b = 10 /\ r = 2) => a = "strong_bullish"
            /\ (b = 3 /\ r = 3) => a = "neutral"
            /\ (b = 4 /\ r = 3) => a = "bullish"

\* ten bullish and two bearish features spread over two interval groups were
\* summarised as strong_bullish
C20_Witness ==
    /\ Returned("_compute_multi_timeframe_summary")
    /\ s_call.bullish = 10
    /\ s_call.bearish = 2
    /\ s_call.groups = 2
    /\ Len(s_retval.val.timeframes_analyzed) = 2
    /\ s_retval.val.trend_alignment = "strong_bullish"

-----------------------------------------------------------------------------
(* Further properties of build(), checked under Spec *)

\* the candle-derived features of a build whose tasks are all done
candle_features == chain_from_iterable([i \in 1..K |-> tasks[i].out.val])

\* C21: build() computes the trend-alignment summary exactly when
\* multi-timeframe mode is on and there is at least one candle-derived
\* feature, and the summary leaves the result alone: the returned features
\* are the candle-derived features followed by the snapshot's, the same
\* sequence in the same order as the one assembled without the summary.
C21_SummaryLeavesFeatures ==
    /\ build_pc # "returned" => summary = NoSummary
    /\ build_pc = "returned" =>
          /\ summary.computed <=> (_use_multi_timeframe /\ candle_features # <<>>)
          /\ features = candle_features \o tasks[K + 1].out.val
          /\ features = assemble(gather(tasks), FALSE).features

\* a multi-timeframe build computed the summary over two timeframes and
\* returned the candle features together with a snapshot feature
C21_Witness ==
    /\ build_pc = "returned"
    /\ _use_multi_timeframe
    /\ summary.computed
    /\ Len(summary.timeframes_analyzed) >= 2
    /\ tasks[K + 1].out.val # <<>>
    /\ Len(features) = Len(candle_features) + Len(tasks[K + 1].out.val)

-----------------------------------------------------------------------------
(* Further properties of SimpleMarketDataSource, checked under SpecSource *)

\* C22 (amended): one get_multi_timeframe_candles call makes at most one
\* session and loads the catalogue at most once, however many timeframes and
\* symbols it is given: _create_exchange is called once; if it raises there is
\* no session and no exchange call; otherwise load_markets is awaited once on
\* the session it returned, before any fetch, every fetch of every timeframe
\* goes out, one after the other, while that session is open and loaded, and
\* close() is invoked once, after the last fetch.
C22_OneSharedSession ==
    Method("get_multi_timeframe_candles") =>
        /\ s_counts.create = 1
        /\ s_counts.load_markets <= 1
        /\ s_counts.close <= 1
        /\ s_exchange.status = "none" =>
              s_counts.load_markets = 0 /\ s_counts.fetch = 0 /\ s_counts.close = 0
        /\ s_counts.fetch > 0 => s_counts.load_markets = 1 /\ s_exchange.loaded
        /\ s_pc = "timeframe" =>
              /\ s_exchange.status = "open" /\ s_exchange.loaded
              /\ s_counts.load_markets = 1 /\ s_counts.close = 0
        /\ s_counts.fetch <= Len(Timeframes) * Len(s_call.symbols)
        /\ s_counts.close = 1 => s_pc = "returned"
        /\ s_pc = "returned" => s_counts.load_markets = 1 /\ s_counts.close = 1

\* C22 as stated: every call creates exactly one session and has awaited
\* load_markets exactly once by the time it ends.
C22_Original ==
    Method("get_multi_timeframe_candles") =>
        /\ s_exchange.status # "none"
        /\ s_pc \in {"returned", "raised"} =>
              s_counts.load_markets = 1 /\ s_counts.close = 1

\* a call over two timeframes and two symbols fetched four times on the one
\* session it loaded once and closed once
C22_Witness ==
    /\ Method("get_multi_timeframe_candles")
    /\ s_pc = "returned"
    /\ Len(Timeframes) = 2
    /\ Len(s_call.symbols) = 2
    /\ s_counts.fetch = 4
    /\ s_counts.create = 1
    /\ s_counts.load_markets = 1
    /\ s_counts.close = 1

\* a step of the gather changes one task and no other
OneTaskChanges ==
    \E i \in 1..Len(tasks) :
        /\ tasks[i].pc # "done"
        /\ \A j \in 1..Len(tasks) : j # i => tasks'[j] = tasks[j]

\* C23: build() assembles its result only after all K+1 tasks have completed,
\* by returning or by failing.  Up to the join nothing is merged; the result
\* is written by the one step taken when every task is done; while the gather
\* is pending each step advances one task and leaves every other task, a
\* finished one's output included, as it was.
C23_MergeAfterJoin ==
    /\ [](build_pc \in {"idle", "gather"} => features = <<>> /\ summary = NoSummary)
    /\ [](build_pc \in {"returned", "raised"} => Len(tasks) = K + 1 /\ AllDone)
    /\ [][ /\ (features' # features \/ summary' # summary) =>
                build_pc = "gather" /\ AllDone /\ build_pc' # "gather"
           /\ (build_pc = "gather" /\ build_pc' # "gather") =>
                AllDone /\ tasks' = tasks
           /\ (build_pc = "gather" /\ tasks' # tasks) =>
                build_pc' = "gather" /\ Len(tasks') = Len(tasks) /\ OneTaskChanges
         ]_vars

\* while the gather is pending, one timeframe task has finished with features,
\* the snapshot task is still waiting for the exchange, and nothing has been
\* merged yet
C23_Witness ==
    /\ build_pc = "gather"
    /\ \E i \in 1..K : tasks[i].pc = "done" /\ tasks[i].out.val # <<>>
    /\ tasks[K + 1].pc = "open"
    /\ features = <<>>

\* positions a task can have in the gather
TaskIndices == 1..((IF MaxK > Len(MULTI_TIMEFRAME_CONFIGS)
                    THEN MaxK ELSE Len(MULTI_TIMEFRAME_CONFIGS)) + 1)

\* task i waits for its data-source call
Waiting(i) == i \in 1..Len(tasks) /\ tasks[i].pc = "open"

\* C24: build() has no deadline of its own.  If the data-source call of any
\* one task never returns -- the task waits for the exchange for ever --
\* build() never returns (nor raises), whatever the other tasks do, all of
\* them having completed included.
C24_HungCallStallsBuild ==
    \A i \in TaskIndices :
        <>[]Waiting(i) => [](build_pc \notin {"returned", "raised"})

\* every task but one has completed, the last one waits for the exchange, and
\* build() cannot go on
C24_Witness ==
    /\ build_pc = "gather"
    /\ K >= 2
    /\ \E i \in 1..Len(tasks) :
          /\ tasks[i].pc = "open"
          /\ \A j \in 1..Len(tasks) : j # i => tasks[j].pc = "done"
    /\ \E j \in 1..Len(tasks) : tasks[j].out.val # <<>>
    /\ ~ENABLED Join

-----------------------------------------------------------------------------
(* Properties of the models router's helpers, checked under SpecFunctions *)

ElementsOf(s) == {s[i] : i \in 1..Len(s)}

NoDuplicates(s) == \A i, j \in 1..Len(s) : s[i] = s[j] => i = j

\* the names of `names` that are not preferred ones, each once, in the order
\* of their first occurrence
rest_as_listed(names) ==
    dict_fromkeys(SelectAt(names, {i \in 1..Len(names) :
                                     names[i] \notin {"openrouter", "siliconflow"}}))

\* C25: _preferred_provider_order returns the input names with "openrouter"
\* in front when it is listed, "siliconflow" next (in front when "openrouter"
\* is not listed) when it is listed, and then the remaining names in their
\* original relative order; every distinct input name is in the output
\* exactly once and the output has no name that was not in the input.
C25_PreferredOrder ==
    Returned("_preferred_provider_order") =>
        LET names == s_call.names
            out == s_retval.val
            head == (IF Contains(names, "openrouter") THEN << "openrouter" >> ELSE <<>>)
                    \o (IF Contains(names, "siliconflow") THEN << "siliconflow" >> ELSE <<>>)
        IN  /\ ElementsOf(out) = ElementsOf(names)
            /\ NoDuplicates(out)
            /\ out = head \o rest_as_listed(names)

\* both preferred providers were listed behind another one that was listed
\* twice, and came out in front of it
C25_Witness ==
    /\ Returned("_preferred_provider_order")
    /\ s_call.names = << "openai", "siliconflow", "openai", "openrouter" >>
    /\ s_retval.val = << "openrouter", "siliconflow", "openai" >>

-----------------------------------------------------------------------------
(* Models router (server/api/routers/models.py): the provider's YAML file *)

\* A value read from YAML: a missing key, a null (`key:` with nothing behind
\* it), or a string
YamlAbsent == [kind |-> "absent", val |-> ""]
YamlNull == [kind |-> "null", val |-> ""]
YamlStr(s) == [kind |-> "str", val |-> s]

\* model ids a request may name
ModelIds == {"m1", "m2"}

\* display names; "" stands for a model_name that is None or empty
NoName == ""
ModelNames == {NoName, "Name"}

\* an entry of the models list: a mapping with id and name, or a bare string
Entry(id, name) == [kind |-> "dict", id |-> id, name |-> name]
StrEntry(id) == [kind |-> "str", id |-> id, name |-> NoName]

\* entries a provider file may hold before the first request
InitialEntries == {Entry("m1", "m1"), Entry("m2", "M2"), StrEntry("m1")}

\* default_model values a provider file may hold before the first request
InitialDefaults == {YamlAbsent, YamlNull, YamlStr(""), YamlStr(" "),
                    YamlStr("m1"), YamlStr("m2")}

NoConnection == [api_key_env |-> YamlAbsent, endpoint_env |-> YamlAbsent,
                 base_url |-> YamlAbsent]

\* _load_yaml of a provider: {} when the file is missing or empty
ProviderFile(models, default_model, connection) ==
    [exists |-> TRUE, models |-> models, default_model |-> default_model,
     connection |-> connection]

NoProviderFile == [exists |-> FALSE]

\* str.strip() on the strings of the model: " " is the one made of whitespace
strip(s) == IF s = " " THEN "" ELSE s

\* str(x) of what data.get("default_model", "") yields: the default "" for a
\* missing key, "None" for a null, the string itself otherwise
str_of_get(v) ==
    IF v.kind = "absent" THEN "" ELSE IF v.kind = "null" THEN "None" ELSE v.val

\* existing_default = str(data.get("default_model", "")).strip()
existing_default(data) == strip(str_of_get(data.default_model))

\* the entries `isinstance(m, dict) and m.get("id") == model_id` selects
matching(models, model_id) ==
    {i \in 1..Len(models) : models[i].kind = "dict" /\ models[i].id = model_id}

\* `if payload.model_name: m["name"] = payload.model_name`
rename(models, i, model_name) ==
    IF model_name # NoName THEN [models EXCEPT ![i].name = model_name] ELSE models

\* `payload.model_name or payload.model_id`
name_or_id(payload) ==
    IF payload.model_name # NoName THEN payload.model_name ELSE payload.model_id

Payload(model_id, model_name) == [model_id |-> model_id, model_name |-> model_name]

Response(status, body) == [status |-> status, body |-> body]

\* add_provider_model: the file after the request, and the response
add_provider_model(data, payload) ==
    IF ~data.exists
    THEN [data |-> data, response |-> Response(404, <<>>)]
    ELSE LET models == data.models
             hit == matching(models, payload.model_id)
             default_model == IF existing_default(data) = ""
                              THEN YamlStr(payload.model_id)
                              ELSE data.default_model
         IN  IF hit # {}
             THEN LET renamed == rename(models, MinOf(hit), payload.model_name)
                  IN  [data |-> [data EXCEPT !.models = renamed,
                                             !.default_model = default_model],
                       response |-> Response(200, Entry(payload.model_id,
                                                        renamed[MinOf(hit)].name))]
             ELSE [data |-> [data EXCEPT
                                !.models = Append(models, Entry(payload.model_id,
                                                                name_or_id(payload))),
                                !.default_model = default_model],
                   response |-> Response(200, Entry(payload.model_id,
                                                    name_or_id(payload)))]

\* a remove that takes out the first entry with the id only
remove_first_match(data, model_id) ==
    IF ~data.exists
    THEN [data |-> data, response |-> Response(500, <<>>)]
    ELSE LET models == data.models
             hit == matching(models, model_id)
             kept == IF hit = {} THEN models
                     ELSE SelectAt(models, (1..Len(models)) \ {MinOf(hit)})
         IN  [data |-> [data EXCEPT !.models = kept],
              response |-> Response(200, [removed |-> Len(models) # Len(kept),
                                          remaining |-> Len(kept)])]

\* remove_provider_model: the file after the request, and the response
remove_provider_model(data, model_id) ==
    IF ~data.exists
    THEN [data |-> data, response |-> Response(500, <<>>)]
    ELSE LET models == data.models
             kept == SelectAt(models, (1..Len(models)) \ matching(models, model_id))
         IN  [data |-> [data EXCEPT !.models = kept],
              response |-> Response(200, [removed |-> Len(models) # Len(kept),
                                          remaining |-> Len(kept)])]

\* a set-default that leaves the models list alone
set_default_model_only(data, payload) ==
    IF ~data.exists
    THEN [data |-> data, response |-> Response(404, <<>>)]
    ELSE [data |-> [data EXCEPT !.default_model = YamlStr(payload.model_id)],
          response |-> Response(200, YamlStr(payload.model_id))]

\* set_provider_default_model: the file after the request, and the response
set_provider_default_model(data, payload) ==
    IF ~data.exists
    THEN [data |-> data, response |-> Response(404, <<>>)]
    ELSE LET models == data.models
             hit == matching(models, payload.model_id)
             ensured == IF hit # {}
                        THEN rename(models, MinOf(hit), payload.model_name)
                        ELSE Append(models, Entry(payload.model_id, name_or_id(payload)))
         IN  [data |-> [data EXCEPT !.models = ensured,
                                    !.default_model = YamlStr(payload.model_id)],
              response |-> Response(200, YamlStr(payload.model_id))]

-----------------------------------------------------------------------------
(* Models router: requests that edit the models list *)

\* the provider files a request may find: none, or one with up to MaxModels
\* entries and any default_model
ModelsInit ==
    /\ r_call = [endpoint |-> ""]
    /\ r_pc = "idle"
    /\ r_yaml \in {NoProviderFile}
                  \cup { ProviderFile(models, default_model, NoConnection) :
                           models \in SeqsUpTo(InitialEntries, MaxModels),
                           default_model \in InitialDefaults }
    /\ r_environ = <<>>
    /\ r_env_file = <<>>
    /\ r_pings = <<>>
    /\ r_response = [status |-> 0]

\* a request is handled from its arrival to its response; the file it found
\* is kept with the call
Handled(endpoint, payload, result) ==
    /\ (result.data.exists => Len(result.data.models) <= MaxModels)
    /\ r_call' = [endpoint |-> endpoint, payload |-> payload, before |-> r_yaml]
    /\ r_yaml' = result.data
    /\ r_response' = result.response
    /\ r_pc' = "idle"
    /\ UNCHANGED << r_environ, r_env_file, r_pings, pipeline_vars, source_vars >>

AddProviderModel ==
    /\ r_pc = "idle"
    /\ \E model_id \in ModelIds, model_name \in ModelNames :
          Handled("add_provider_model", Payload(model_id, model_name),
                  add_provider_model(r_yaml, Payload(model_id, model_name)))

RemoveProviderModel ==
    /\ r_pc = "idle"
    /\ \E model_id \in ModelIds :
          Handled("remove_provider_model", Payload(model_id, NoName),
                  remove_provider_model(r_yaml, model_id))

SetProviderDefaultModel ==
    /\ r_pc = "idle"
    /\ \E model_id \in ModelIds, model_name \in ModelNames :
          Handled("set_provider_default_model", Payload(model_id, model_name),
                  set_provider_default_model(r_yaml, Payload(model_id, model_name)))

InitModels == PipelineIdle /\ SourceInit /\ ModelsInit

NextModels ==
    \/ AddProviderModel
    \/ RemoveProviderModel
    \/ SetProviderDefaultModel

SpecModels == InitModels /\ [][NextModels]_vars

-----------------------------------------------------------------------------
(* Properties of the models endpoints, checked under SpecModels *)

\* the last request was `endpoint`, on an existing provider
Handler(endpoint) == r_call.endpoint = endpoint /\ r_call.before.exists

CountId(models, model_id) == Cardinality(matching(models, model_id))

\* the provider has no default model: the key is missing, null, or blank
NoDefaultModel(data) ==
    \/ data.default_model.kind \in {"absent", "null"}
    \/ strip(data.default_model.val) = ""

\* add leaves one entry more when the id was absent and the same entries, up
\* to the name of the one it found, when the id was present
AddGrowsByAtMostOne ==
    Handler("add_provider_model") =>
        LET before == r_call.before.models
            model_id == r_call.payload.model_id
        IN  /\ CountId(before, model_id) = 0 =>
                  /\ Len(r_yaml.models) = Len(before) + 1
                  /\ SubSeq(r_yaml.models, 1, Len(before)) = before
                  /\ r_yaml.models[Len(r_yaml.models)].id = model_id
            /\ CountId(before, model_id) > 0 =>
                  /\ Len(r_yaml.models) = Len(before)
                  /\ \A i \in 1..Len(before) : r_yaml.models[i].id = before[i].id
            /\ CountId(r_yaml.models, model_id)
                  = (IF CountId(before, model_id) = 0 THEN 1 ELSE CountId(before, model_id))

\* C26: add_provider_model on an existing provider leaves the models list
\* with exactly one more entry when the id was absent and with the same
\* number of entries when it was present, never with a duplicate of its
\* making; if the provider had no default model before the call (none, or a
\* blank one), default_model becomes the added id, otherwise it is unchanged.
C26_AddModel ==
    /\ AddGrowsByAtMostOne
    /\ Handler("add_provider_model") =>
          IF NoDefaultModel(r_call.before)
          THEN r_yaml.default_model = YamlStr(r_call.payload.model_id)
          ELSE r_yaml.default_model = r_call.before.default_model

\* C27: set_provider_default_model on an existing provider makes sure the
\* model is in the models list -- appended when no entry has the id, the list
\* left as long as it was when one has -- and sets default_model: after the
\* call default_model is the requested id and that id is in the list.
C27_SetDefaultModel ==
    Handler("set_provider_default_model") =>
        LET before == r_call.before.models
            model_id == r_call.payload.model_id
        IN  /\ r_yaml.default_model = YamlStr(model_id)
            /\ CountId(r_yaml.models, model_id) >= 1
            /\ CountId(r_yaml.models, model_id)
                  = (IF CountId(before, model_id) = 0 THEN 1 ELSE CountId(before, model_id))
            /\ Len(r_yaml.models)
                  = (IF CountId(before, model_id) = 0 THEN Len(before) + 1 ELSE Len(before))
            /\ \A i \in 1..Len(before) : r_yaml.models[i].id = before[i].id
            /\ r_response.status = 200

\* the default was moved from a listed model to one that was not in the list
\* yet and that the call appended
C27_Witness ==
    /\ Handler("set_provider_default_model")
    /\ r_call.payload.model_id = "m2"
    /\ r_call.before.default_model = YamlStr("m1")
    /\ r_call.before.models = << Entry("m1", "m1") >>
    /\ r_yaml.models = << Entry("m1", "m1"), Entry("m2", "m2") >>
    /\ r_yaml.default_model = YamlStr("m2")

-----------------------------------------------------------------------------
(* Models router: update_provider_config, os.environ and the .env file *)

\* an Optional[str] field of a payload: omitted (None), or a string
Omitted == [given |-> FALSE, val |-> ""]
Given(s) == [given |-> TRUE, val |-> s]

\* what a ProviderUpdateRequest may carry in api_key and in base_url
ApiKeys == {Omitted, Given(""), Given("new-key")}
BaseUrls == {Omitted, Given(""), Given("https://new")}

\* the environment variables a provider file may name
EnvVars == {"API_KEY_ENV", "ENDPOINT_ENV", "BASE_URL_ENV"}

Unset == [set |-> FALSE, val |-> ""]
SetTo(value) == [set |-> TRUE, val |-> value]

\* a line of the .env file: KEY=value, or any other text
Line(key, value) == [key |-> key, value |-> value]
OtherLine == Line("#", "")

\* a provider's raw base_url as tokens: plain, or ${VAR:default}
PlainUrl == << "https://old" >>
Placeholder(var) == << "${" >> \o var \o << ":", "https://old", "}" >>

\* the connection blocks a provider file may hold
Connections ==
    { [api_key_env |-> k, endpoint_env |-> e, base_url |-> b] :
        k \in {YamlAbsent, YamlStr("API_KEY_ENV")},
        e \in {YamlAbsent, YamlStr("ENDPOINT_ENV")},
        b \in {YamlAbsent, YamlStr(PlainUrl), YamlStr(Placeholder(<< "BASE_URL_ENV" >>)),
               YamlStr(Placeholder(<<>>))} }

\* what os.environ holds before the request
Environs ==
    { [v \in EnvVars |-> Unset],
      [v \in EnvVars |-> IF v = "API_KEY_ENV" THEN SetTo("old-key") ELSE Unset],
      [v \in EnvVars |-> SetTo("old")] }

\* what the .env file holds before the request
EnvFiles ==
    { <<>>,
      << OtherLine, Line("API_KEY_ENV", "old-key") >>,
      << Line("API_KEY_ENV", "old-key"), Line("BASE_URL_ENV", "old"),
         Line("API_KEY_ENV", "older-key") >> }

HasLine(file, key) == \E i \in 1..Len(file) : file[i].key = key

\* _set_env: os.environ[key] = value; every line of the file that starts with
\* `key=` is rewritten, and a line is appended when there is none
_set_env(environ, file, key, value) ==
    [environ |-> [environ EXCEPT ![key] = SetTo(value)],
     file |-> IF HasLine(file, key)
              THEN [i \in 1..Len(file) |->
                       IF file[i].key = key THEN Line(key, value) ELSE file[i]]
              ELSE Append(file, Line(key, value))]

\* a YAML string is truthy when it is there and not empty
truthy(v) == v.kind = "str" /\ v.val # ""

\* the name in front of the ":" of a ${VAR:default} placeholder, "" if the
\* value is no placeholder or names no variable
env_var_name(raw_base) ==
    IF raw_base.kind # "str" \/ raw_base.val = <<>> THEN ""
    ELSE LET t == raw_base.val
         IN  IF t[1] # "${" \/ ~Contains(t, "}") THEN ""
             ELSE LET inner == SubSeq(t, 2, MinOf({i \in 1..Len(t) : t[i] = "}"}) - 1)
                  IN  IF inner = <<>> \/ inner[1] = ":" THEN "" ELSE inner[1]

\* a test that takes an empty api_key for an omitted one
writes_api_key_if_not_empty(api_key_env, payload) ==
    truthy(api_key_env) /\ payload.api_key.given /\ payload.api_key.val # ""

\* `if api_key_env and (payload.api_key is not None)`
writes_api_key(api_key_env, payload) == truthy(api_key_env) /\ payload.api_key.given

Stored(data, environ, file) == [data |-> data, environ |-> environ, file |-> file]

\* the base_url part of update_provider_config
update_base_url(s, payload) ==
    LET connection == s.data.connection
    IN  IF ~payload.base_url.given THEN s
        ELSE IF truthy(connection.endpoint_env)
        THEN LET e == _set_env(s.environ, s.file, connection.endpoint_env.val,
                               payload.base_url.val)
             IN  Stored(s.data, e.environ, e.file)
        ELSE IF env_var_name(connection.base_url) # ""
        THEN LET e == _set_env(s.environ, s.file, env_var_name(connection.base_url),
                               payload.base_url.val)
             IN  Stored(s.data, e.environ, e.file)
        ELSE Stored([s.data EXCEPT !.connection.base_url =
                                      YamlStr(<< payload.base_url.val >>)],
                    s.environ, s.file)

\* the api_key part of update_provider_config
update_api_key(s, payload) ==
    IF writes_api_key(s.data.connection.api_key_env, payload)
    THEN LET e == _set_env(s.environ, s.file, s.data.connection.api_key_env.val,
                           payload.api_key.val)
         IN  Stored(s.data, e.environ, e.file)
    ELSE s

\* update_provider_config: what is stored after the request, and the status
update_provider_config(s, payload) ==
    IF ~s.data.exists
    THEN [stored |-> s, response |-> Response(404, <<>>)]
    ELSE [stored |-> update_base_url(update_api_key(s, payload), payload),
          response |-> Response(200, <<>>)]

ConfigInit ==
    /\ r_call = [endpoint |-> ""]
    /\ r_pc = "idle"
    /\ r_yaml \in {NoProviderFile}
                  \cup { ProviderFile(<< Entry("m1", "m1") >>, YamlStr("m1"), c) :
                           c \in Connections }
    /\ r_environ \in Environs
    /\ r_env_file \in EnvFiles
    /\ r_pings = <<>>
    /\ r_response = [status |-> 0]

\* a request is handled from its arrival to its response; what it found
\* stored is kept with the call
UpdateProviderConfig ==
    /\ r_pc = "idle"
    /\ \E api_key \in ApiKeys, base_url \in BaseUrls :
        LET payload == [api_key |-> api_key, base_url |-> base_url]
            before == Stored(r_yaml, r_environ, r_env_file)
            result == update_provider_config(before, payload)
        IN  /\ r_call' = [endpoint |-> "update_provider_config", payload |-> payload,
                          before |-> before]
            /\ r_yaml' = result.stored.data
            /\ r_environ' = result.stored.environ
            /\ r_env_file' = result.stored.file
            /\ r_response' = result.response
    /\ r_pc' = "idle"
    /\ UNCHANGED << r_pings, pipeline_vars, source_vars >>

InitConfig == PipelineIdle /\ SourceInit /\ ConfigInit

NextConfig == UpdateProviderConfig

SpecConfig == InitConfig /\ [][NextConfig]_vars

-----------------------------------------------------------------------------
(* Properties of update_provider_config, checked under SpecConfig *)

\* the last request was update_provider_config, on an existing provider
Updated == r_call.endpoint = "update_provider_config" /\ r_call.before.data.exists

\* the lines of the file that set `key`
LinesOf(file, key) == SelectAt(file, {i \in 1..Len(file) : file[i].key = key})

\* `key` is stored as `value`: in os.environ and on every line of the .env
\* file that sets it, of which there is at least one
StoredAs(key, value) ==
    /\ r_environ[key] = SetTo(value)
    /\ LinesOf(r_env_file, key) # <<>>
    /\ \A i \in 1..Len(r_env_file) :
          r_env_file[i].key = key => r_env_file[i].value = value

\* what is stored under `key` is what the request found
Untouched(key) ==
    /\ r_environ[key] = r_call.before.environ[key]
    /\ LinesOf(r_env_file, key) = LinesOf(r_call.before.file, key)

\* the variable the provider's base_url is kept in, "" if it is kept in the
\* provider file itself
base_url_var(connection) ==
    IF truthy(connection.endpoint_env) THEN connection.endpoint_env.val
    ELSE env_var_name(connection.base_url)

\* an omitted field leaves what is stored alone, and a base_url that is given,
\* the empty string included, is written to the one place the provider keeps it
OmittedSkippedBaseUrlWritten ==
    Updated =>
        LET connection == r_call.before.data.connection
            payload == r_call.payload
        IN  /\ (~payload.api_key.given /\ truthy(connection.api_key_env)) =>
                  Untouched(connection.api_key_env.val)
            /\ ~payload.base_url.given =>
                  /\ r_yaml = r_call.before.data
                  /\ Untouched("ENDPOINT_ENV") /\ Untouched("BASE_URL_ENV")
            /\ (payload.base_url.given /\ base_url_var(connection) # "") =>
                  /\ StoredAs(base_url_var(connection), payload.base_url.val)
                  /\ r_yaml = r_call.before.data
            /\ (payload.base_url.given /\ base_url_var(connection) = "") =>
                  /\ r_yaml.connection.base_url = YamlStr(<< payload.base_url.val >>)
                  /\ Untouched("ENDPOINT_ENV") /\ Untouched("BASE_URL_ENV")

-----------------------------------------------------------------------------
(* Models router: check_model *)

Providers == {"openai", "openrouter", "deepseek", "siliconflow", "azure", "google",
              "dashscope", "openai-compatible"}

\* manager.primary_provider
primary_provider == "openrouter"

\* a base_url by what _resolve_endpoint looks at: the host it names ("" for no
\* base_url), the API version segment in its path, and whether it is a full
\* `.../models/...:generateContent` endpoint already
BaseUrl(host, version, full) == [host |-> host, version |-> version, full |-> full]

NoBaseUrl == BaseUrl("", "none", FALSE)

CheckBaseUrls ==
    { NoBaseUrl, BaseUrl("openai", "none", FALSE), BaseUrl("azure", "none", FALSE),
      BaseUrl("unknown", "none", FALSE),
      BaseUrl("google", "none", FALSE), BaseUrl("google", "v1", FALSE),
      BaseUrl("google", "v1beta", FALSE), BaseUrl("google", "none", TRUE),
      BaseUrl("google", "v1beta", TRUE) }

\* the provider configurations the manager may hold: none for the provider,
\* or one with an API key, a base_url, a default model and (Azure) an
\* api_version
NoCfg == [found |-> FALSE]

Cfgs ==
    {NoCfg} \cup
    { [found |-> TRUE, api_key |-> k, base_url |-> b, default_model |-> d,
       api_version |-> v] :
        k \in {"", "key"}, b \in CheckBaseUrls, d \in {"", "m1"}, v \in BOOLEAN }

\* CheckModelRequest; "" stands for a field that is None or empty
CheckRequests ==
    { [provider |-> p, model_id |-> m, api_key |-> k] :
        p \in Providers \cup {""}, m \in {"", "m1"}, k \in {"", " ", "key"} }

\* `a or b`, for strings
or_else(a, b) == IF a # "" THEN a ELSE b

\* api_key = (payload.api_key or cfg.api_key or "").strip()
effective_api_key(payload, cfg) == strip(or_else(payload.api_key, or_else(cfg.api_key, "")))

\* the endpoint a ping goes to: its host, its API version segment and the
\* style of the request
Endpoint(host, version, style) ==
    [resolved |-> TRUE, host |-> host, version |-> version, style |-> style]

NoEndpoint(style) == [resolved |-> FALSE, host |-> "", version |-> "none", style |-> style]

OfficialOpenAILike == {"openai", "openrouter", "deepseek", "siliconflow", "dashscope"}

\* the provider-driven half of _resolve_endpoint
provider_endpoint(provider, base_url, api_version) ==
    IF provider = "google" THEN Endpoint("google", "v1beta", "google")
    ELSE IF provider = "azure"
    THEN IF base_url.host # "" /\ api_version
         THEN Endpoint(base_url.host, "none", "azure") ELSE NoEndpoint("azure")
    ELSE IF provider \in OfficialOpenAILike THEN Endpoint(provider, "v1", "openai_like")
    ELSE IF provider = "openai-compatible" /\ base_url.host # ""
    THEN Endpoint(base_url.host, "v1", "openai_like")
    ELSE NoEndpoint("openai_like")

\* _resolve_endpoint: by the host of base_url if it is a known one, by the
\* provider otherwise
_resolve_endpoint(provider, base_url, api_version) ==
    IF base_url.host = "google"
    THEN IF base_url.full THEN Endpoint("google", base_url.version, "google")
         ELSE IF base_url.version = "none" THEN Endpoint("google", "v1beta", "google")
         ELSE Endpoint("google", base_url.version, "google")
    ELSE IF base_url.host = "azure"
    THEN IF api_version THEN Endpoint("azure", "none", "azure") ELSE NoEndpoint("azure")
    ELSE IF base_url.host = "openai" THEN Endpoint("openai", "v1", "openai_like")
    ELSE IF base_url.host = "unknown" /\ provider = "openai-compatible"
    THEN Endpoint("unknown", "v1", "openai_like")
    ELSE provider_endpoint(provider, base_url, api_version)

\* CheckModelResponse: ok, status, and of the error text what the retry looks
\* at -- the HTTP code it is prefixed with (0 for none) and whether the
\* message it quotes contains "404"
NoError == [code |-> 0, mentions_404 |-> FALSE]
ErrorText(code, mentions_404) == [code |-> code, mentions_404 |-> mentions_404]
Result(ok, status, error) == [ok |-> ok, status |-> status, error |-> error]

\* what a ping can end in: a response (status code, the message of its error
\* body -- none, one without "404", one with "404" in it -- and whether a 200
\* carries the expected body), a timeout, or another exception
Msgs == {"", "msg", "msg 404"}

Responses ==
    { [kind |-> "response", code |-> c, msg |-> m, body_ok |-> b] :
        c \in {401, 404, 500}, m \in Msgs, b \in {FALSE} }
    \cup { [kind |-> "response", code |-> 200, msg |-> "", body_ok |-> b] : b \in BOOLEAN }

PingOutcomes ==
    Responses \cup { [kind |-> k, code |-> 0, msg |-> "", body_ok |-> FALSE] :
                        k \in {"timeout", "exception"} }

\* no ping has ended
NoOutcome == [kind |-> "none", code |-> 0, msg |-> "", body_ok |-> FALSE]

\* _direct_google_ping: the result it leaves, from the response
_direct_google_ping(resp) ==
    IF resp.code \in {401, 403}
    THEN Result(FALSE, "auth_failed", ErrorText(0, resp.msg = "msg 404"))
    ELSE IF resp.code >= 400
    THEN Result(FALSE, "request_failed", ErrorText(resp.code, resp.msg = "msg 404"))
    ELSE IF ~resp.body_ok THEN Result(FALSE, "request_failed", NoError)
    ELSE Result(TRUE, "reachable", NoError)

\* _direct_openai_like_ping: the result it leaves, from the response
_direct_openai_like_ping(resp) ==
    IF resp.code \in {401, 403}
    THEN Result(FALSE, "auth_failed", ErrorText(0, resp.msg = "msg 404"))
    ELSE IF resp.code >= 400
    THEN Result(FALSE, "request_failed",
                ErrorText(IF resp.msg = "" THEN resp.code ELSE 0, resp.msg = "msg 404"))
    ELSE IF ~resp.body_ok THEN Result(FALSE, "request_failed", NoError)
    ELSE Result(TRUE, "reachable", NoError)

\* the result a finished ping leaves
ping_result(style, outcome) ==
    IF outcome.kind = "timeout" THEN Result(FALSE, "timeout", NoError)
    ELSE IF outcome.kind = "exception" THEN Result(FALSE, "request_failed", NoError)
    ELSE IF style = "google" THEN _direct_google_ping(outcome)
    ELSE _direct_openai_like_ping(outcome)

\* `(result.error or "").find("404") != -1`
error_has_404(error) == error.code = 404 \/ error.mentions_404

\* alt_endpoint: /v1beta/ replaced by /v1/, else /v1/ by /v1beta/, else None
alt_endpoint(endpoint) ==
    IF endpoint.version = "v1beta" THEN [endpoint EXCEPT !.version = "v1"]
    ELSE IF endpoint.version = "v1" THEN [endpoint EXCEPT !.version = "v1beta"]
    ELSE NoEndpoint(endpoint.style)

\* the first ping failed: is there a second one
retries(endpoint, outcome) ==
    /\ endpoint.style = "google"
    /\ outcome.kind = "response"
    /\ ~ping_result(endpoint.style, outcome).ok
    /\ error_has_404(ping_result(endpoint.style, outcome).error)
    /\ alt_endpoint(endpoint).resolved

\* a check that pings whatever the key
requires_api_key_never(provider) == FALSE

\* the providers check_model does not ping without an API key
requires_api_key(provider) ==
    provider \in {"openai", "openrouter", "deepseek", "siliconflow", "azure", "google"}

CheckInit ==
    /\ r_call = [endpoint |-> ""]
    /\ r_pc = "idle"
    /\ r_yaml = NoProviderFile
    /\ r_environ = <<>>
    /\ r_env_file = <<>>
    /\ r_pings = <<>>
    /\ r_response = [status |-> 0]

Answer(status, result) ==
    /\ r_response' = Response(status, result)
    /\ r_pc' = IF status = 200 THEN "returned" ELSE "raised"
    /\ r_pings' = r_pings

\* check_model up to its first await: the provider and the model are
\* resolved, the key is looked at, the endpoint is chosen and the first ping
\* is sent
CheckModel ==
    /\ r_pc = "idle"
    /\ \E payload \in CheckRequests, cfg \in Cfgs, runtime \in BOOLEAN :
        LET provider == or_else(payload.provider, primary_provider)
            model_id == IF cfg.found THEN or_else(payload.model_id, cfg.default_model)
                        ELSE ""
            api_key == IF cfg.found THEN effective_api_key(payload, cfg) ELSE ""
            endpoint == IF cfg.found
                        THEN _resolve_endpoint(provider, cfg.base_url, cfg.api_version)
                        ELSE NoEndpoint("")
        IN  /\ r_call' = [endpoint |-> "check_model", payload |-> payload, cfg |-> cfg,
                          runtime |-> runtime, provider |-> provider,
                          model_id |-> model_id, api_key |-> api_key, url |-> endpoint,
                          first |-> NoOutcome, second |-> NoOutcome]
            /\ IF ~cfg.found THEN Answer(404, <<>>)
               ELSE IF model_id = "" THEN Answer(400, <<>>)
               ELSE IF ~runtime THEN Answer(200, Result(FALSE, "runtime_missing", NoError))
               ELSE IF api_key = "" /\ requires_api_key(provider)
               THEN Answer(200, Result(FALSE, "auth_failed", NoError))
               ELSE IF ~endpoint.resolved
               THEN Answer(200, Result(FALSE, "probe_unavailable", NoError))
               ELSE /\ r_pings' = << endpoint >>
                    /\ r_pc' = "ping"
                    /\ r_response' = r_response
    /\ UNCHANGED << r_yaml, r_environ, r_env_file, pipeline_vars, source_vars >>

\* the first ping ends: check_model answers, or sends the second ping
FirstPingDone ==
    /\ r_pc = "ping"
    /\ \E outcome \in PingOutcomes :
        /\ r_call' = [r_call EXCEPT !.first = outcome]
        /\ IF retries(r_call.url, outcome)
           THEN /\ r_pings' = Append(r_pings, alt_endpoint(r_call.url))
                /\ r_pc' = "retry"
                /\ r_response' = r_response
           ELSE Answer(200, ping_result(r_call.url.style, outcome))
    /\ UNCHANGED << r_yaml, r_environ, r_env_file, pipeline_vars, source_vars >>

\* the second ping ends: check_model answers
SecondPingDone ==
    /\ r_pc = "retry"
    /\ \E outcome \in PingOutcomes :
        /\ r_call' = [r_call EXCEPT !.second = outcome]
        /\ Answer(200, ping_result(r_call.url.style, outcome))
    /\ UNCHANGED << r_yaml, r_environ, r_env_file, pipeline_vars, source_vars >>

InitCheck == PipelineIdle /\ SourceInit /\ CheckInit

NextCheck ==
    \/ CheckModel
    \/ FirstPingDone
    \/ SecondPingDone

SpecCheck == InitCheck /\ [][NextCheck]_vars

-----------------------------------------------------------------------------
(* Properties of check_model *)

Checked == r_call.endpoint = "check_model"

\* the call got as far as looking at the key: the provider is configured,
\* the model id is resolved, httpx can be imported
KeyLookedAt == Checked /\ r_call.cfg.found /\ r_call.model_id # "" /\ r_call.runtime

MissingKey ==
    /\ r_call.api_key = ""
    /\ r_call.provider \in {"openai", "openrouter", "deepseek", "siliconflow", "azure",
                            "google"}

GoogleStyle == Checked /\ r_call.url.resolved /\ r_call.url.style = "google"

FirstEnded == Checked /\ r_call.first.kind # "none"

First404 == FirstEnded /\ r_call.first.kind = "response" /\ r_call.first.code = 404

FirstSucceeded ==
    FirstEnded /\ r_call.first.kind = "response" /\ r_call.first.code = 200
               /\ r_call.first.body_ok

FirstFailedNot404 == FirstEnded /\ ~FirstSucceeded /\ ~First404

RetriedOnAlternate ==
    /\ Len(r_pings) = 2
    /\ r_pings[2].host = r_pings[1].host
    /\ {r_pings[1].version, r_pings[2].version} = {"v1", "v1beta"}

ReportsRetry ==
    (r_pc = "returned" /\ Len(r_pings) = 2) =>
        /\ r_response.status = 200
        /\ r_response.body = ping_result("google", r_call.second)

\* an empty key reaches a ping only for the providers outside the six
EmptyKeyPings ==
    (Checked /\ r_call.cfg.found /\ r_call.api_key = "" /\ r_pings # <<>>) =>
        r_call.provider \in {"dashscope", "openai-compatible"}

\* what the retry of check_model does keep to: at most two pings, the second
\* one only with a Google-style endpoint; a first ping answered 404 on an
\* endpoint with a /v1beta/ or /v1/ segment is retried once on the other
\* version and the retry's outcome is the result; a failure whose error text
\* has no "404" in it, or on an endpoint without a version segment, is not
\* retried
RetryFollows404Text ==
    /\ Len(r_pings) <= 2
    /\ ~GoogleStyle => Len(r_pings) <= 1
    /\ (GoogleStyle /\ First404 /\ r_call.url.version # "none") => RetriedOnAlternate
    /\ ReportsRetry
    /\ (GoogleStyle /\ FirstFailedNot404 /\ r_call.first.msg # "msg 404") =>
          Len(r_pings) = 1
    /\ (GoogleStyle /\ FirstEnded /\ r_call.url.version = "none") => Len(r_pings) = 1
    /\ (GoogleStyle /\ FirstSucceeded) => Len(r_pings) = 1

\* C30: in check_model with a Google-style endpoint, a first ping that fails
\* with a 404 is retried exactly once against the alternate API version
\* (v1beta to v1 or v1 to v1beta), the reported result is the retry's
\* outcome, and no more than two pings are ever sent; a failure that is not a
\* 404 is not retried
C30_RetryOn404Only ==
    /\ Len(r_pings) <= 2
    /\ (GoogleStyle /\ First404) => RetriedOnAlternate
    /\ ReportsRetry
    /\ (GoogleStyle /\ FirstFailedNot404) => Len(r_pings) = 1

\* a 401 whose message has "404" in it was retried, and the answer is the
\* retry's
C30_RetriedAuthFailure ==
    /\ GoogleStyle
    /\ r_call.first.kind = "response"
    /\ r_call.first.code = 401
    /\ Len(r_pings) = 2
    /\ r_pc = "returned"
    /\ r_response.body.status = "reachable"

-----------------------------------------------------------------------------
(* Termination of build() *)

\* C31: build() terminates: with a finite symbol list and a finite timeframe
\* table, if every call on the exchange eventually returns or raises, then
\* every task of a build() that was called eventually completes, and build()
\* eventually returns
C31_BuildTerminates ==
    (build_pc = "gather") ~>
        (build_pc = "returned" /\ \A i \in 1..Len(tasks) : tasks[i].pc = "done")

\* each call on the data source ends once it is made: its loops run over the
\* symbol list and the timeframe table, both finite (under SpecSourceFair)
SourceCallEnds == (s_pc # "idle") ~> (s_pc \in {"returned", "raised"})

\* build() has returned after three tasks, one of which failed
C31_Witness ==
    /\ build_pc = "returned"
    /\ Len(tasks) >= 3
    /\ \A i \in 1..Len(tasks) : tasks[i].pc = "done"
    /\ \E i \in 1..Len(tasks) : tasks[i].fetched = Exc
    /\ \E i \in 1..Len(tasks) : tasks[i].out.val # <<>>

-----------------------------------------------------------------------------
(* Whole series, snapshot shape and close() *)

\* the rows the exchange returned for a symbol, over the iterations in the log
RECURSIVE rows_returned(_, _, _)
rows_returned(log, symbols, symbol) ==
    IF log = <<>> THEN 0
    ELSE LET entry == log[Len(log)]
         IN  rows_returned(SubSeq(log, 1, Len(log) - 1), symbols, symbol)
             + (IF symbols[entry.sym] = symbol /\ entry.event.ok
                THEN Len(entry.event.rows) ELSE 0)

\* the candles of a symbol in a list of candles
candles_of_symbol(candles, symbol) ==
    Cardinality({k \in 1..Len(candles) : candles[k].symbol = symbol})

\* C32: in get_recent_candles each symbol is all-or-nothing: for every
\* symbol, the result holds either a candle for every row the exchange
\* returned for it or no candle of that symbol at all; a failure while a
\* symbol is processed never leaves a partial series of it in the result
C32_AllOrNothing ==
    (Method("get_recent_candles") /\ s_pc = "returned") =>
        \A i \in 1..Len(s_call.symbols) :
            candles_of_symbol(s_retval.val, s_call.symbols[i])
                \in {0, rows_returned(s_log, s_call.symbols, s_call.symbols[i])}

\* one symbol, two rows of which the second does not convert: the candle of
\* the first row came back alone
C32_PartialSeries ==
    /\ Method("get_recent_candles")
    /\ s_pc = "returned"
    /\ Len(s_call.symbols) = 1
    /\ Len(s_log) = 1
    /\ s_log[1].event.ok
    /\ Len(s_log[1].event.rows) = 2
    /\ s_log[1].event.rows[1].well_formed
    /\ ~s_log[1].event.rows[2].well_formed
    /\ Len(s_retval.val) = 1
    /\ s_retval.val[1].symbol = s_call.symbols[1]

\* without a row that fails to convert every symbol is all-or-nothing: a
\* symbol missing from the catalogue or whose fetch raised leaves no candle
WholeSeriesIfRowsConvert ==
    (/\ Method("get_recent_candles")
     /\ s_pc = "returned"
     /\ \A k \in 1..Len(s_log) : rows_ok(s_log[k].event.rows)) =>
        \A i \in 1..Len(s_call.symbols) :
            candles_of_symbol(s_retval.val, s_call.symbols[i])
                = rows_returned(s_log, s_call.symbols, s_call.symbols[i])

\* the shape of a snapshot mapping for a list of symbols: every key is one of
\* the symbols, every entry has "price", and its fields are among "price",
\* "funding_rate" and "open_interest"
snapshot_shape(d, symbols) ==
    \A k \in 1..Len(d) :
        /\ \E i \in 1..Len(symbols) : symbols[i] = d[k].key
        /\ \A j \in 1..Len(d) : d[j].key = d[k].key => j = k
        /\ "price" \in d[k].value
        /\ d[k].value \subseteq {"price", "funding_rate", "open_interest"}

\* C33: the mapping returned by get_market_snapshot satisfies, for every
\* sequence of fetch outcomes: its keys are a subset of the input symbols,
\* every key has a "price" field, and "funding_rate" or "open_interest"
\* appears only under a key that has "price".  It holds of the mapping at
\* every point of the call, and so of the one returned.
C33_SnapshotShape ==
    Method("get_market_snapshot") =>
        /\ snapshot_shape(s_snapshot, s_call.symbols)
        /\ s_pc = "returned" =>
              /\ s_retval = List(s_snapshot)
              /\ snapshot_shape(s_retval.val, s_call.symbols)

\* of two symbols the ticker of the first failed and the second came back with
\* its price and funding rate, its open interest having failed
C33_Witness ==
    /\ Method("get_market_snapshot")
    /\ s_pc = "returned"
    /\ Len(s_call.symbols) = 2
    /\ s_call.symbols[1] # s_call.symbols[2]
    /\ Outcome(1, "fetch_ticker", FALSE)
    /\ Outcome(2, "fetch_open_interest", FALSE)
    /\ Len(s_retval.val) = 1
    /\ s_retval.val[1].key = s_call.symbols[2]
    /\ s_retval.val[1].value = {"price", "funding_rate"}

-----------------------------------------------------------------------------
(* Further properties of the models endpoints, checked under SpecModels *)

\* the provider's default, if it has one, is the id of an entry of its list
DefaultListed(data) ==
    NoDefaultModel(data) \/ CountId(data.models, data.default_model.val) >= 1

\* add_provider_model and set_provider_default_model keep a listed default
\* listed
AddAndSetKeepDefaultListed ==
    ((Handler("add_provider_model") \/ Handler("set_provider_default_model"))
        /\ DefaultListed(r_call.before)) => DefaultListed(r_yaml)

\* C34: after any sequence of add_provider_model, remove_provider_model and
\* set_provider_default_model calls on a provider, a non-blank default_model
\* always names a model id present in that provider's models list: each of
\* the three calls, made on a provider file of which this is true, leaves a
\* file of which it is true
C34_DefaultIsListed ==
    ((Handler("add_provider_model") \/ Handler("remove_provider_model")
        \/ Handler("set_provider_default_model"))
        /\ DefaultListed(r_call.before)) => DefaultListed(r_yaml)

\* the default model was removed from the list: default_model still names it
C34_DanglingDefault ==
    /\ Handler("remove_provider_model")
    /\ r_call.payload.model_id = "m1"
    /\ r_call.before.models = << Entry("m1", "m1") >>
    /\ r_call.before.default_model = YamlStr("m1")
    /\ r_response.status = 200
    /\ r_response.body.removed
    /\ r_yaml.models = <<>>
    /\ r_yaml.default_model = YamlStr("m1")

\* the entries of a list that are not a mapping with the given id, in order
RECURSIVE entries_without(_, _)
entries_without(models, model_id) ==
    IF models = <<>> THEN <<>>
    ELSE (IF Head(models).kind = "dict" /\ Head(models).id = model_id
          THEN <<>> ELSE << Head(models) >>)
         \o entries_without(Tail(models), model_id)

keys(d) == [i \in 1..Len(d) |-> d[i].key]

\* C36: get_multi_timeframe_candles returns a mapping with one key per
\* timeframe of the table (mapped to a possibly empty candle list, even when
\* every symbol of that timeframe failed) whenever load_markets succeeds, and
\* an empty mapping when load_markets fails; a per-symbol failure in one
\* timeframe does not prevent the later timeframes from being fetched: in
\* every timeframe the loop comes to, whatever the earlier ones brought, each
\* symbol is tried, and the loop comes to every timeframe
C36_KeyPerTimeframe ==
    Method("get_multi_timeframe_candles") =>
        /\ (s_pc = "returned" /\ s_exchange.loaded) =>
              /\ keys(s_retval.val) = keys(Timeframes)
              /\ s_retval = List(s_result)
        /\ (s_pc = "returned" /\ ~s_exchange.loaded) => s_retval = List(<<>>)
        /\ s_pc = "timeframe" =>
              /\ s_tf \in 1..Len(Timeframes)
              /\ keys(s_result) = SubSeq(keys(Timeframes), 1, s_tf - 1)
              /\ Len(s_log) = s_sym - 1
              /\ \A k \in 1..Len(s_log) :
                    /\ s_log[k].sym = k
                    /\ s_log[k].event.timeframe = Timeframes[s_tf].key
                    /\ s_log[k].event.limit = Timeframes[s_tf].value

\* two timeframes, two symbols of which the first is not in the catalogue:
\* it failed in the first timeframe (and in the second), the other symbol was
\* fetched in both, and both keys came back, the second with candles
C36_Witness ==
    /\ Method("get_multi_timeframe_candles")
    /\ s_pc = "returned"
    /\ Len(Timeframes) = 2
    /\ s_call.symbols = << ETH_USDT_DASH, BTC_USDT >>
    /\ s_exchange.markets = {BTC_USDT_SWAP}
    /\ s_counts.fetch = 2
    /\ keys(s_retval.val) = keys(Timeframes)
    /\ s_retval.val[2].value # <<>>

-----------------------------------------------------------------------------
(* Successive builds, the legacy table and close(), checked under SpecBuilds,
   Spec and SpecSource *)

\* the data-source call the task at place i of a build makes
expected_call(i) ==
    IF i <= K
    THEN [method |-> "get_recent_candles", symbols |-> _symbols,
          interval |-> _candle_configurations[i].interval,
          lookback |-> _candle_configurations[i].lookback]
    ELSE [method |-> "get_market_snapshot", symbols |-> _symbols,
          interval |-> "", lookback |-> 0]

\* C37: build() leaves the pipeline's timeframe table, deduplicated symbol
\* list and mode flag unchanged, so any number of successive build() calls on
\* one pipeline each issue the same K+1 fetches with the same (interval,
\* lookback) arguments and symbols: no step changes the three, the calls on
\* record are whole rounds of the K+1 calls of the table followed by the
\* round under way, and a returned build has completed its round
C37_BuildLeavesPipeline ==
    /\ [][UNCHANGED << _candle_configurations, _symbols, _use_multi_timeframe >>]_vars
    /\ [](\A j \in 1..Len(calls) : calls[j] = expected_call(((j - 1) % (K + 1)) + 1))
    /\ [](build_pc = "returned" => Len(calls) % (K + 1) = 0 /\ Len(calls) >= K + 1)
    /\ [](build_pc = "gather" =>
            Len(calls) % (K + 1)
                = Cardinality({i \in 1..Len(tasks) : tasks[i].pc # "scheduled"}) % (K + 1))

\* the second build() of a pipeline with a two-entry table and two symbols
\* has returned: six calls are on record, the last three equal to the first
C37_Witness ==
    /\ build_pc = "returned"
    /\ K = 2
    /\ Len(_symbols) = 2
    /\ Len(calls) = 6
    /\ \A j \in 1..3 : calls[j + 3] = calls[j]
    /\ calls[1].interval # calls[2].interval

\* C38: with use_multi_timeframe=False and no caller-supplied table, the table
\* is [("1s", 180), ("1m", 240)] and build() issues two candle tasks; because
\* of the 1s fallback both tasks fetch from the exchange with timeframe "1m"
\* (limits 180 and 240), and every candle either task produces carries
\* interval "1m", none carries "1s" (under SpecLegacy)
C38_LegacyFetchesAsMinute ==
    /\ _candle_configurations = << CandleConfig("1s", 180), CandleConfig("1m", 240) >>
    /\ build_pc = "gather" =>
          /\ Len(tasks) = 3
          /\ CandleTasks = {1, 2}
    /\ \A j \in 1..Len(calls) :
          /\ j = 1 => calls[j] = [method |-> "get_recent_candles", symbols |-> _symbols,
                                  interval |-> "1s", lookback |-> 180]
          /\ j = 2 => calls[j] = [method |-> "get_recent_candles", symbols |-> _symbols,
                                  interval |-> "1m", lookback |-> 240]
          /\ j = 3 => calls[j].method = "get_market_snapshot"
    /\ Method("get_recent_candles") =>
          /\ << s_call.interval, s_call.lookback >> \in {<< "1s", 180 >>, << "1m", 240 >>}
          /\ s_call.symbols = _symbols
          /\ \A e \in FetchEvents : e.timeframe = "1m" /\ e.limit = s_call.lookback
          /\ \A k \in 1..Len(s_all_candles) : s_all_candles[k].interval = "1m"
          /\ s_pc = "returned" =>
                /\ s_retval.tag = "list"
                /\ \A k \in 1..Len(s_retval.val) : s_retval.val[k].interval = "1m"

\* the three tasks of a legacy build were started and the call of the "1s"
\* task has returned candles of two symbols, fetched as "1m" with limit 180
C38_Witness ==
    /\ ~_use_multi_timeframe
    /\ ~configurations_arg.given
    /\ Len(calls) = 3
    /\ Method("get_recent_candles")
    /\ s_pc = "returned"
    /\ s_call.interval = "1s"
    /\ Len(_symbols) = 2
    /\ Cardinality({e \in FetchEvents : e.ok /\ e.timeframe = "1m" /\ e.limit = 180
                                        /\ Len(e.rows) >= 1}) >= 1
    /\ \E k \in 1..Len(s_retval.val) : s_retval.val[k].symbol = _symbols[2]
    /\ \A k \in 1..Len(s_retval.val) : s_retval.val[k].interval = "1m"

\* the call of the "1m" task of a legacy build has returned candles fetched
\* with limit 240
LegacyMinuteTaskFetched ==
    /\ Method("get_recent_candles")
    /\ s_pc = "returned"
    /\ s_call.interval = "1m"
    /\ \E e \in FetchEvents : e.ok /\ e.timeframe = "1m" /\ e.limit = 240
    /\ Len(s_retval.val) >= 1

\* what the call has collected: all_candles, result or snapshot
collected ==
    IF Method("get_recent_candles") THEN s_all_candles
    ELSE IF Method("get_multi_timeframe_candles") THEN s_result
    ELSE s_snapshot

\* C39: a failure of exchange.close() is swallowed in get_recent_candles,
\* get_multi_timeframe_candles and get_market_snapshot: the call still returns
\* exactly the data collected before the close attempt and raises nothing.
\* The step that awaits close() ends the call as returned, whether close()
\* succeeded or raised, with the data collected before it as the return
\* value; a call whose close() failed has returned that data.
C39_CloseFailureSwallowed ==
    /\ [][s_pc = "close" =>
            /\ s_pc' = "returned"
            /\ s_exchange'.status \in {"closed", "close_failed"}
            /\ s_retval' = List(collected)
            /\ collected' = collected]_vars
    /\ [](s_exchange.status = "close_failed" =>
            /\ s_pc = "returned"
            /\ s_counts.close = 1
            /\ s_retval = List(collected))

\* get_market_snapshot has returned the prices of two symbols although
\* close() raised
C39_Witness ==
    /\ Method("get_market_snapshot")
    /\ s_pc = "returned"
    /\ s_exchange.status = "close_failed"
    /\ ~LoadFailed
    /\ Len(s_retval.val) = 2
    /\ s_retval = List(s_snapshot)

\* get_recent_candles has returned candles although close() raised
RecentReturnedAfterCloseFailed ==
    /\ Method("get_recent_candles")
    /\ s_pc = "returned"
    /\ s_exchange.status = "close_failed"
    /\ Len(s_retval.val) >= 2

\* get_multi_timeframe_candles has returned its dict although close() raised
MultiReturnedAfterCloseFailed ==
    /\ Method("get_multi_timeframe_candles")
    /\ s_pc = "returned"
    /\ s_exchange.status = "close_failed"
    /\ \E k \in 1..Len(s_retval.val) : s_retval.val[k].value # <<>>

====
